---- MODULE Spec2Model ----
(***************************************************************************)
(* The backfill scripts of buzz-fun-backend: the three sampling loops      *)
(* (bulk_populate, simple_bulk_populate, targeted_bulk_populate) and the   *)
(* two per-FID updaters (bulk_update_1_to_100, update_all_profiles) and    *)
(* the three profile refreshers (refresh_top_creators, force_cache_refresh,*)
(* clean_leaderboard).                                                     *)
(* A run is one execution of a script, from its import to the end of its   *)
(* main(); every remote call is an input drawn from the set of responses   *)
(* curl can hand back.                                                     *)
(***************************************************************************)
EXTENDS Integers, Sequences, FiniteSets, TLC

VARIABLES
    script,            \* which script's main() this run executes
    NEYNAR_API_KEY,    \* the environment variable: "set", "empty" or "absent"
    pc,                \* "Start" (module level), "Exited" (sys.exit at module level),
                       \* "Collect", "Returned" (main returned before its loop),
                       \* "Loop", "Stopped" (loop left normally),
                       \* "Crashed" (an exception left the loop and main())
    attempts,          \* sampling loops: attempts
    successful_adds,   \* sampling loops: successful_adds
    processed_fids,    \* sampling loops: processed_fids
    cursor,            \* updaters, refreshers: number of FIDs the for loop has taken
    all_fids,          \* update_all_profiles: the sorted, de-duplicated FID list;
                       \* refreshers: the FIDs the for loop walks (top_fids,
                       \* fids_without_profiles, the fids of entries_to_remove)
    successful_updates,\* updaters: successful_updates; refreshers: their success
                       \* counter (successful_refreshes, updated_count)
    failed_updates,    \* updaters: failed_updates
    not_found,         \* bulk_update_1_to_100: not_found
    with_profiles,     \* bulk_update_1_to_100: with_profiles
    profiled_scores,   \* bulk_update_1_to_100: the kinds of score among the entries
                       \* of results that have a profile
    last,              \* what the latest loop iteration drew, received and printed
    summary,           \* what the final summary printed
    tail,              \* what main() did after its loop, in order
    audit,             \* what the audit read of the leaderboard reported
    audit_read,        \* the answer to the GET /leaderboard of the audit
    exit_code,         \* "running", "0" (main returned), "1" (sys.exit(1) or an
                       \* uncaught exception)
    pipelined,         \* history: how often each key entered the verify/fetch pipeline
    nonNullFetches,    \* history: number of fetches that returned a non-null score
    clock,             \* time.time() at the top of the coming pass, in ticks counted
                       \* from the start of the whole unit the latest int(time.time())
                       \* fell in
    trigger,           \* the POST /leaderboard/refresh of the run, once it returned
    drawn,             \* the sampler on its own: what the latest draw read and returned
    current_leaderboard \* the answer to the GET /leaderboard before the loop, while
                       \* the list computed from it has not been walked yet

vars == <<script, NEYNAR_API_KEY, current_leaderboard, pc, attempts, successful_adds, processed_fids,
          cursor, all_fids, successful_updates, failed_updates, not_found,
          with_profiles, profiled_scores, last, summary, tail, audit, audit_read,
          exit_code,
          pipelined, nonNullFetches, clock, trigger, drawn>>

\* what the code after the loop writes
after_loop == <<summary, tail, audit, audit_read>>

-----------------------------------------------------------------------------
(* Bounds of the model *)

\* TARGET_USERS = 100 in the three sampling scripts; the model runs a smaller quota.
TARGET_USERS == 2
\* The keys a draw can return (1..50000 in the scripts), scaled down.
MaxFid == 3
\* bulk_update_1_to_100 walks range(1, 101); the model walks 1..LAST_FID.
LAST_FID == 3
\* refresh_top_creators takes the first 10 entries of the leaderboard; the model
\* takes the first TOP_CREATORS.
TOP_CREATORS == 2
\* The progress report comes every 20 attempts in simple_bulk_populate and every 25
\* in targeted_bulk_populate, of budgets of 200 and 300; the model scales the
\* cadence down with the budget.
PROGRESS_EVERY_SIMPLE == 2
PROGRESS_EVERY_TARGETED == 3
\* time.time() is a float; the model reads it in ticks, TicksPerUnit of them to the
\* second
TicksPerUnit == 2
\* the longest one score request, with the prints around it, takes, in ticks (curl
\* is given up to 15 or 30 seconds)
MaxCallTicks == 1

DrawnFids == 1..MaxFid

SamplingScripts == {"bulk_populate", "simple_bulk_populate", "targeted_bulk_populate"}
UpdateScripts == {"bulk_update_1_to_100", "update_all_profiles"}
RefreshScripts == {"refresh_top_creators", "force_cache_refresh", "clean_leaderboard"}
Scripts ==
    SamplingScripts \cup UpdateScripts \cup RefreshScripts \cup {"populate_top_creators"}

-----------------------------------------------------------------------------
(* Text: a Python str is a sequence of one-character strings *)

\* "FID not found"
TxtFidNotFound ==
    <<"F", "I", "D", " ", "n", "o", "t", " ", "f", "o", "u", "n", "d">>
\* "Invalid FID"
TxtInvalidFid ==
    <<"I", "n", "v", "a", "l", "i", "d", " ", "F", "I", "D">>
\* "USER NOT FOUND"
TxtUserNotFoundUpper ==
    <<"U", "S", "E", "R", " ", "N", "O", "T", " ", "F", "O", "U", "N", "D">>
\* "Rate limit exceeded"
TxtRateLimited ==
    <<"R", "a", "t", "e", " ", "l", "i", "m", "i", "t", " ", "e", "x", "c",
      "e", "e", "d", "e", "d">>
\* "Unknown error": the default of data.get('error', 'Unknown error')
TxtUnknownError ==
    <<"U", "n", "k", "n", "o", "w", "n", " ", "e", "r", "r", "o", "r">>
\* "Request failed": the text the scripts give a non-zero curl exit
TxtRequestFailed ==
    <<"R", "e", "q", "u", "e", "s", "t", " ", "f", "a", "i", "l", "e", "d">>
\* "Invalid JSON response": bulk_update_1_to_100's text for a JSONDecodeError
TxtInvalidJson ==
    <<"I", "n", "v", "a", "l", "i", "d", " ", "J", "S", "O", "N", " ", "r",
      "e", "s", "p", "o", "n", "s", "e">>
\* str(JSONDecodeError) of json.loads('')
TxtExpectingValue ==
    <<"E", "x", "p", "e", "c", "t", "i", "n", "g", " ", "v", "a", "l", "u",
      "e", ":", " ", "l", "i", "n", "e", " ", "1", " ", "c", "o", "l", "u",
      "m", "n", " ", "1", " ", "(", "c", "h", "a", "r", " ", "0", ")">>
\* str(JSONDecodeError) of json.loads('{"error": "a<TAB>b"}'): a raw control
\* character inside a JSON string
TxtInvalidControl ==
    <<"I", "n", "v", "a", "l", "i", "d", " ", "c", "o", "n", "t", "r", "o",
      "l", " ", "c", "h", "a", "r", "a", "c", "t", "e", "r", " ", "a", "t",
      ":", " ", "l", "i", "n", "e", " ", "1", " ", "c", "o", "l", "u", "m",
      "n", " ", "1", "3", " ", "(", "c", "h", "a", "r", " ", "1", "2", ")">>
\* the tail of str(subprocess.TimeoutExpired): "Command '[...]' timed out after 30 seconds"
TxtTimedOut ==
    <<"t", "i", "m", "e", "d", " ", "o", "u", "t", " ", "a", "f", "t", "e",
      "r", " ", "3", "0", " ", "s", "e", "c", "o", "n", "d", "s">>
\* str(AttributeError) of [1].get('success')
TxtNoAttributeGet ==
    <<"'", "l", "i", "s", "t", "'", " ", "o", "b", "j", "e", "c", "t", " ",
      "h", "a", "s", " ", "n", "o", " ", "a", "t", "t", "r", "i", "b", "u",
      "t", "e", " ", "'", "g", "e", "t", "'">>
\* str(KeyError('data'))
TxtKeyErrorData ==
    <<"'", "d", "a", "t", "a", "'">>
\* 'not found'
NeedleNotFound ==
    <<"n", "o", "t", " ", "f", "o", "u", "n", "d">>
\* 'invalid'
NeedleInvalid ==
    <<"i", "n", "v", "a", "l", "i", "d">>

\* str.lower() on one character
LowerChar(c) ==
    CASE c = "A" -> "a" [] c = "B" -> "b" [] c = "C" -> "c" [] c = "D" -> "d"
      [] c = "E" -> "e" [] c = "F" -> "f" [] c = "G" -> "g" [] c = "H" -> "h"
      [] c = "I" -> "i" [] c = "J" -> "j" [] c = "K" -> "k" [] c = "L" -> "l"
      [] c = "M" -> "m" [] c = "N" -> "n" [] c = "O" -> "o" [] c = "P" -> "p"
      [] c = "Q" -> "q" [] c = "R" -> "r" [] c = "S" -> "s" [] c = "T" -> "t"
      [] c = "U" -> "u" [] c = "V" -> "v" [] c = "W" -> "w" [] c = "X" -> "x"
      [] c = "Y" -> "y" [] c = "Z" -> "z" [] OTHER -> c

\* str.lower()
Lower(s) == [i \in 1..Len(s) |-> LowerChar(s[i])]

\* needle in hay
Contains(needle, hay) ==
    \E i \in 0..(Len(hay) - Len(needle)) : SubSeq(hay, i + 1, i + Len(needle)) = needle

\* The text each error identifier stands for.
ErrorText(id) ==
    CASE id = "fid_not_found" -> TxtFidNotFound
      [] id = "invalid_fid" -> TxtInvalidFid
      [] id = "user_not_found_upper" -> TxtUserNotFoundUpper
      [] id = "rate_limited" -> TxtRateLimited
      [] id = "unknown_error" -> TxtUnknownError
      [] id = "request_failed" -> TxtRequestFailed
      [] id = "invalid_json" -> TxtInvalidJson
      [] id = "expecting_value" -> TxtExpectingValue
      [] id = "invalid_control" -> TxtInvalidControl
      [] id = "timed_out" -> TxtTimedOut
      [] id = "attribute_error" -> TxtNoAttributeGet
      [] id = "key_error" -> TxtKeyErrorData

ErrorIds ==
    {"fid_not_found", "invalid_fid", "user_not_found_upper", "rate_limited",
     "unknown_error", "request_failed", "invalid_json", "expecting_value",
     "invalid_control", "timed_out", "attribute_error", "key_error"}

\* 'not found' in error or 'invalid' in error: the test without .lower()
MatchesCaseSensitive(text) ==
    Contains(NeedleNotFound, text) \/ Contains(NeedleInvalid, text)

\* 'not found' in error.lower() or 'invalid' in error.lower()
MatchesNotFound(text) ==
    Contains(NeedleNotFound, Lower(text)) \/ Contains(NeedleInvalid, Lower(text))

\* the error texts the test accepts (computed once, text by text)
NotFoundMessages == {id \in ErrorIds : MatchesNotFound(ErrorText(id))}

\* the test applied to the text an identifier stands for
IsNotFoundMessage(id) == id \in NotFoundMessages

-----------------------------------------------------------------------------
(* What curl hands back for GET /score/creator/{fid} *)

\* One completed subprocess.run of the score request:
\*   rc        "zero" | "nonzero" (curl exit code) | "timeout" (TimeoutExpired raised)
\*   body      "object" | "nonobject" (valid JSON that is no object, e.g. [1]) |
\*             "empty" | "ctrlchar" (two bodies json.loads rejects)
\*   success   "true" | "false" | "absent"
\*   data      "record" | "emptyrecord" ({}) | "null" | "nonobject" ([1]) | "absent"
\*   score     overallScore: "number" | "text" | "null" | "absent"
\*   error     "absent" | "nontext" (null) | an identifier of ErrorText
\*   username, displayName   "text" | "empty" | "absent"
Rsp(rc, body, success, data, score, error, username, displayName) ==
    [rc |-> rc, body |-> body, success |-> success, data |-> data, score |-> score,
     error |-> error, username |-> username, displayName |-> displayName]

NoResponse == Rsp("none", "none", "none", "none", "none", "none", "none", "none")

\* {success: true, data: {overallScore: ..., tier: ...}}
ScoredResponses ==
    {Rsp("zero", "object", "true", "record", s, "absent", "absent", "absent") :
        s \in {"number", "text", "null", "absent"}}

\* {success: true} with data missing or of the wrong shape
BadDataResponses ==
    {Rsp("zero", "object", "true", d, "absent", "absent", "absent", "absent") :
        d \in {"emptyrecord", "null", "nonobject", "absent"}}

\* {success: false, error: ...} and {} (no success field at all)
ErrorResponses ==
    {Rsp("zero", "object", "false", "absent", "absent", e, "absent", "absent") :
        e \in {"absent", "nontext", "fid_not_found", "invalid_fid",
               "user_not_found_upper", "rate_limited"}}
    \cup {Rsp("zero", "object", "absent", "absent", "absent", "absent", "absent", "absent")}

\* a body that is no JSON object, or no JSON at all
BadBodyResponses ==
    {Rsp("zero", b, "absent", "absent", "absent", "absent", "absent", "absent") :
        b \in {"nonobject", "empty", "ctrlchar"}}

\* curl failed or ran into the timeout
TransportFailures ==
    {Rsp(rc, "none", "none", "none", "none", "none", "none", "none") :
        rc \in {"nonzero", "timeout"}}

ScoreResponses ==
    ScoredResponses \cup BadDataResponses \cup ErrorResponses
        \cup BadBodyResponses \cup TransportFailures

\* score records that carry profile fields (read by the updaters only)
ProfileResponses ==
    {Rsp("zero", "object", "true", "record", "number", "absent", u, d) :
        u \in {"text", "empty"}, d \in {"text", "absent"}}
    \cup {Rsp("zero", "object", "true", "record", "null", "absent", "text", "text")}

UpdateResponses == ScoreResponses \cup ProfileResponses

\* what one loop iteration printed and did:
\*   status   the status line: "scored" | "inactive" | "notfound" | "failed" |
\*            "unverified" | "duplicate" (nothing printed) | "crash" (uncaught exception)
\*   counted  the success counter was incremented
\*   crashed  an exception left main()
Outcome(status, counted, crashed) ==
    [status |-> status, counted |-> counted, crashed |-> crashed]

-----------------------------------------------------------------------------
(* simple_bulk_populate.py and targeted_bulk_populate.py *)

\* get_creator_score: the dict main() receives; shape "nonobject" when
\* json.loads returned something that is no dict.
Result(shape, success, data, score, error) ==
    [shape |-> shape, success |-> success, data |-> data, score |-> score, error |-> error]

get_creator_score(r) ==
    IF r.rc = "timeout" THEN Result("object", "false", "absent", "absent", "timed_out")
    ELSE IF r.rc = "nonzero"
        THEN Result("object", "false", "absent", "absent", "request_failed")
    ELSE IF r.body = "empty"
        THEN Result("object", "false", "absent", "absent", "expecting_value")
    ELSE IF r.body = "ctrlchar"
        THEN Result("object", "false", "absent", "absent", "invalid_control")
    ELSE Result(r.body, r.success, r.data, r.score, r.error)

\* simple_bulk_populate main(), from the call of get_creator_score to the status line
simple_process(r) ==
    LET result == get_creator_score(r) IN
    IF result.shape = "nonobject" THEN Outcome("crash", FALSE, TRUE)    \* list has no .get
    ELSE IF result.success = "true"
        THEN IF result.data \in {"record", "emptyrecord"}
                THEN Outcome("scored", TRUE, FALSE)
                ELSE Outcome("crash", FALSE, TRUE)     \* KeyError 'data', or .get on a non-dict
    ELSE LET error == IF result.error = "absent" THEN "unknown_error" ELSE result.error IN
         IF error = "nontext" THEN Outcome("crash", FALSE, TRUE)        \* None has no .lower
         ELSE IF IsNotFoundMessage(error) THEN Outcome("notfound", FALSE, FALSE)
         ELSE Outcome("failed", FALSE, FALSE)

\* targeted_bulk_populate main(), from the call of get_creator_score to the status line
targeted_process(r) ==
    LET result == get_creator_score(r) IN
    IF result.shape = "nonobject" THEN Outcome("crash", FALSE, TRUE)
    ELSE IF result.success = "true"
        THEN IF result.data = "emptyrecord" THEN Outcome("inactive", FALSE, FALSE)
             ELSE IF result.data # "record" THEN Outcome("crash", FALSE, TRUE)
             ELSE IF result.score \in {"null", "absent"} THEN Outcome("inactive", FALSE, FALSE)
             ELSE IF result.score = "text"
                THEN Outcome("crash", TRUE, TRUE)      \* counted, then {score:.1f} raises
             ELSE Outcome("scored", TRUE, FALSE)
    ELSE Outcome("failed", FALSE, FALSE)

-----------------------------------------------------------------------------
(* bulk_populate.py *)

\* One completed subprocess.run of the Neynar lookup (curl -w '%{http_code}'):
\*   rc         "zero" | "nonzero" | "timeout"
\*   status     the last three characters of stdout
\*   body       "object" | "nonobject" | "undecodable"
\*   users      "list" | "list_nondict" (first element is no object) | "empty" |
\*              "nonlist" (null) | "absent"
\*   first_fid  users[0].fid, 0 when the first user has no fid
Vrsp(rc, status, body, users, first_fid) ==
    [rc |-> rc, status |-> status, body |-> body, users |-> users, first_fid |-> first_fid]

NoVerification == Vrsp("none", "none", "none", "none", 0)

VerifierResponses ==
    {Vrsp("zero", "200", "object", "list", f) : f \in 0..MaxFid}
    \cup {Vrsp("zero", "200", "object", u, 0) :
            u \in {"list_nondict", "empty", "nonlist", "absent"}}
    \cup {Vrsp("zero", "200", b, "absent", 0) : b \in {"nonobject", "undecodable"}}
    \cup {Vrsp("zero", "404", "object", "absent", 0),
          Vrsp("nonzero", "none", "none", "none", 0),
          Vrsp("timeout", "none", "none", "none", 0)}

\* mutant of neynar_lookup: any non-empty users list is accepted, the fid of its
\* first user is not compared with the requested key
neynar_lookup_any_user(fid, v) ==
    IF v.rc = "timeout" THEN "TimeoutExpired"
    ELSE IF v.rc = "zero" /\ v.status = "200" /\ v.body = "object"
            /\ v.users \in {"list", "list_nondict"} THEN "True"
    ELSE "False"

\* The body of check_neynar_user_exists' outer try, statement by statement: the
\* value it returns ("True", "False") or the exception that leaves it.
neynar_lookup(fid, v) ==
    IF v.rc = "timeout" THEN "TimeoutExpired"          \* subprocess.run(timeout=10)
    ELSE IF v.rc # "zero" THEN "False"                 \* if result.returncode != 0
    ELSE IF v.status # "200" THEN "False"              \* if status_code != "200"
    ELSE IF v.body = "undecodable" THEN "False"        \* except json.JSONDecodeError
    ELSE IF v.body = "nonobject" THEN "AttributeError" \* [1].get('users', [])
    ELSE IF v.users = "absent" THEN "False"            \* len([]) > 0
    ELSE IF v.users = "nonlist" THEN "TypeError"       \* len(None)
    ELSE IF v.users = "empty" THEN "False"
    ELSE IF v.users = "list_nondict" THEN "AttributeError"     \* 1 .get('fid')
    ELSE IF v.first_fid = fid THEN "True" ELSE "False"

\* the exceptions the statements of the try body can raise
VerifierExceptions == {"TimeoutExpired", "AttributeError", "TypeError"}

\* mutant of VerifierCatches: the outer handler narrowed to the decode error
VerifierCatchesDecodeOnly(exc) == exc = "JSONDecodeError"

\* except Exception as e: print(...); return False
VerifierCatches(exc) == exc \in VerifierExceptions

\* check_neynar_user_exists: "True", "False", or an exception it lets through
check_neynar_user_exists(fid, v) ==
    LET b == neynar_lookup(fid, v) IN
    IF b \in {"True", "False"} THEN b
    ELSE IF VerifierCatches(b) THEN "False"
    ELSE b

\* bulk_populate's get_creator_score: "None", or the kind of data['data']
bulk_get_creator_score(r) ==
    IF r.rc # "zero" THEN "None"
    ELSE IF r.body # "object" THEN "None"          \* every exception is caught
    ELSE IF r.success # "true" THEN "None"
    ELSE IF r.data \in {"absent", "null"} THEN "None"
    ELSE r.data

\* bulk_populate main(), from the call of get_creator_score to the status line
bulk_process(r) ==
    LET score_data == bulk_get_creator_score(r) IN
    IF score_data \in {"None", "emptyrecord"} THEN Outcome("failed", FALSE, FALSE)
    ELSE IF score_data = "nonobject" THEN Outcome("crash", FALSE, TRUE)
    ELSE Outcome("scored", TRUE, FALSE)

-----------------------------------------------------------------------------
(* The query string of the score request *)

\* The names of the parameters each script appends to /score/creator/{fid}, in
\* the order of its URL.
score_query(s) ==
    CASE s = "bulk_update_1_to_100" -> <<"t">>                  \* ?t={timestamp}
      [] s = "update_all_profiles" -> <<"t">>                   \* ?t={timestamp}
      [] s = "refresh_top_creators" -> <<"refresh">>            \* ?refresh=true
      [] s = "force_cache_refresh" -> <<"refresh", "t", "r", "force">>
      [] s = "clean_leaderboard" -> <<"force_refresh", "t">>
      [] OTHER -> <<>>                                          \* the sampling scripts

-----------------------------------------------------------------------------
(* The samplers: generate_weighted_fid and generate_likely_fid *)

\* FID_RANGES of bulk_populate and of simple_bulk_populate: (min_fid, max_fid,
\* weight), the weights 0.3, 0.4, ... written in hundredths
FID_RANGES(s) ==
    IF s = "bulk_populate"
    THEN << <<1, 1000, 30>>, <<1000, 5000, 40>>, <<5000, 20000, 20>>,
            <<20000, 50000, 10>> >>
    ELSE << <<1, 1000, 40>>, <<1000, 5000, 30>>, <<5000, 15000, 20>>,
            <<15000, 30000, 10>> >>

\* the bounds of the return below the for loop: random.randint(20000, 50000) in
\* bulk_populate, random.randint(1, 5000) in simple_bulk_populate
FallbackBounds(s) == IF s = "bulk_populate" THEN <<20000, 50000>> ELSE <<1, 5000>>

\* generate_likely_fid: the bounds of the five strategies with their weights, in
\* hundredths
strategies ==
    << <<1, 100, 30>>, <<100, 500, 25>>, <<500, 2000, 20>>, <<2000, 8000, 15>>,
       <<8000, 25000, 10>> >>

\* the weights of a table added up
RECURSIVE TableMass(_)
TableMass(table) ==
    IF table = <<>> THEN 0 ELSE Head(table)[3] + TableMass(Tail(table))

\* random.random() returns a float of [0.0, 1.0), here in hundredths. The weights
\* of each table add up to 1 (in floating point to 1 - 2^-53, which is also the
\* largest float random.random() returns), so no value drawn lies above the mass
\* of the whole table.
RandomValues(table) == 0..(TableMass(table) - 1)

\* mutant of WalkRanges: "if rand < cumulative"
RECURSIVE WalkRangesStrict(_, _, _, _)
WalkRangesStrict(table, rand, i, cumulative) ==
    IF i > Len(table) THEN 0
    ELSE LET c == cumulative + table[i][3] IN
         IF rand < c THEN i ELSE WalkRangesStrict(table, rand, i + 1, c)

\* generate_weighted_fid: the for loop from the i-th range on, cumulative holding
\* the weights of the ranges before it; the result is the index of the range the
\* loop returns from, 0 when it runs off the table
RECURSIVE WalkRanges(_, _, _, _)
WalkRanges(table, rand, i, cumulative) ==
    IF i > Len(table) THEN 0
    ELSE LET c == cumulative + table[i][3] IN
         IF rand <= c THEN i ELSE WalkRanges(table, rand, i + 1, c)

\* the bounds generate_weighted_fid passes to random.randint for the value rand
generate_weighted_fid(s, rand) ==
    LET i == WalkRanges(FID_RANGES(s), rand, 1, 0) IN
    IF i = 0 THEN [range |-> 0, lo |-> FallbackBounds(s)[1], hi |-> FallbackBounds(s)[2]]
    ELSE [range |-> i, lo |-> FID_RANGES(s)[i][1], hi |-> FID_RANGES(s)[i][2]]

\* random.choices(strategies, weights=weights)[0]: bisect finds the first strategy
\* whose cumulative weight is greater than the value drawn, the last one at most
RECURSIVE choices(_, _, _, _)
choices(table, rand, i, cumulative) ==
    IF i >= Len(table) THEN Len(table)
    ELSE LET c == cumulative + table[i][3] IN
         IF rand < c THEN i ELSE choices(table, rand, i + 1, c)

\* the bounds generate_likely_fid passes to random.randint
generate_likely_fid(rand) ==
    LET i == choices(strategies, rand, 1, 0) IN
    [range |-> i, lo |-> strategies[i][1], hi |-> strategies[i][2]]

\* random.randint(a, b) returns any integer from a to b, both included; the model
\* draws the two ends and their neighbours
randint(a, b) == {a, a + 1, b - 1, b}

-----------------------------------------------------------------------------
(* The clock of the score requests *)

\* how long one score request can take
CallTicks == 0..MaxCallTicks

\* timestamp = int(time.time()), clock being time.time() in ticks
timestamp(c) == c \div TicksPerUnit

\* mutant of time_sleep: the pass goes on to the next request without sleeping
time_sleep_skipped(events) == 0

\* the seconds the time.sleep of a pass waits
time_sleep(events) ==
    IF \E i \in 1..Len(events) : events[i] = "sleep_2" THEN 2
    ELSE IF \E i \in 1..Len(events) : events[i] = "sleep_1" THEN 1
    ELSE 0

\* time.time() at the top of the next pass, counted from the second this pass's
\* timestamp fell in: the pass read the clock at c, its request took d ticks, then
\* it slept. After the last pass of the loop (more = FALSE) no request is stamped
\* any more and the clock is left at 0.
ClockAfterPass(c, d, events, more) ==
    IF more THEN (c % TicksPerUnit) + d + time_sleep(events) * TicksPerUnit ELSE 0

\* the value of t in the query string of the pass, counted from the second the
\* previous timestamp of the run fell in; 0 where the URL carries no t
TimestampToken(s, c) ==
    IF \E i \in 1..Len(score_query(s)) : score_query(s)[i] = "t"
    THEN timestamp(c) ELSE 0

-----------------------------------------------------------------------------
(* The while loop of the three sampling scripts *)

\* max_attempts = TARGET_USERS * 3 (bulk_populate, targeted_bulk_populate),
\* TARGET_USERS * 2 (simple_bulk_populate)
max_attempts(s) ==
    IF s = "simple_bulk_populate" THEN TARGET_USERS * 2 ELSE TARGET_USERS * 3

\* the operator below reads these two bounds, defined with the other bounds:
\* "if attempts % 20 == 0" (simple_bulk_populate), "% 25" (targeted_bulk_populate)
ProgressEvery(s) ==
    IF s = "simple_bulk_populate" THEN PROGRESS_EVERY_SIMPLE ELSE PROGRESS_EVERY_TARGETED

\* mutant of LoopContinues: "while attempts < max_attempts", the quota forgotten
LoopContinuesIgnoringQuota(s, a, budget) == a < budget

\* mutant of LoopContinues: the budget test is off by one
LoopContinuesOffByOne(s, a, budget) == s < TARGET_USERS /\ a <= budget

\* while successful_adds < TARGET_USERS and attempts < max_attempts
LoopContinues(s, a, budget) == s < TARGET_USERS /\ a < budget

\* mutant of AttemptsAfterDraw: the counter moved below the duplicate check
AttemptsAfterAdmission(a, dup) == IF dup THEN a ELSE a + 1

\* attempts += 1, the first statement of the loop body, above the duplicate check
AttemptsAfterDraw(a, dup) == a + 1

\* mutant of IsDuplicate: the membership test dropped
IsNeverDuplicate(fid, seen) == FALSE

\* if fid in processed_fids: continue
IsDuplicate(fid, seen) == fid \in seen

\* mutant of SeenAfterAdmission: the key is never recorded
SeenNotRecorded(seen, fid) == seen

\* processed_fids.add(fid)
SeenAfterAdmission(seen, fid) == seen \cup {fid}

\* the fetch returned a record whose overallScore is present and not null
HasNonNullScore(r) ==
    /\ r.rc = "zero" /\ r.body = "object" /\ r.success = "true"
    /\ r.data = "record" /\ r.score \in {"number", "text"}

\* the pass issued a remote call for its key
EntersPipeline(events) == \E i \in 1..Len(events) : events[i] \in {"verify", "fetch"}

\* One pass of the while loop: fid is the key drawn, vr the verifier's answer
\* (NoVerification where the script has no verifier or did not get to it), r the
\* score response (NoResponse when no fetch was issued), o what the pass printed
\* and counted, events the remote calls and sleeps of the pass in order.
LoopPass(fid, vr, r, o, events) ==
    LET dup == IsDuplicate(fid, processed_fids) IN
    /\ attempts' = AttemptsAfterDraw(attempts, dup)
    /\ processed_fids' =
         IF dup THEN processed_fids ELSE SeenAfterAdmission(processed_fids, fid)
    /\ successful_adds' = IF o.counted THEN successful_adds + 1 ELSE successful_adds
    /\ pc' = IF o.crashed THEN "Crashed"
             ELSE IF LoopContinues(successful_adds', attempts', max_attempts(script))
                THEN "Loop" ELSE "Stopped"
    /\ last' = [fid |-> fid, dup |-> dup, vr |-> vr, resp |-> r, status |-> o.status,
                counted |-> o.counted, events |-> events,
                query |-> IF r = NoResponse THEN <<>> ELSE score_query(script),
                t |-> 0, prev_attempts |-> attempts, prev_successes |-> successful_adds,
                prev_seen |-> processed_fids]
    /\ pipelined' = IF EntersPipeline(events)
                    THEN [pipelined EXCEPT ![fid] = @ + 1] ELSE pipelined
    /\ nonNullFetches' =
         IF HasNonNullScore(r) THEN nonNullFetches + 1 ELSE nonNullFetches
    /\ exit_code' = IF o.crashed THEN "1" ELSE exit_code
    /\ UNCHANGED <<trigger, clock, drawn, script, NEYNAR_API_KEY, current_leaderboard, cursor, all_fids,
                   successful_updates,
                   failed_updates, not_found, with_profiles, profiled_scores,
                   after_loop>>

DuplicateOutcome == Outcome("duplicate", FALSE, FALSE)

\* bulk_populate main(): one pass of the while loop
bulk_populate_pass ==
    /\ script = "bulk_populate" /\ pc = "Loop"
    /\ \E fid \in DrawnFids :
         IF IsDuplicate(fid, processed_fids)
         THEN LoopPass(fid, NoVerification, NoResponse, DuplicateOutcome, <<"draw">>)
         ELSE \E vr \in VerifierResponses :
                LET exists == check_neynar_user_exists(fid, vr) IN
                IF exists \notin {"True", "False"}
                THEN LoopPass(fid, vr, NoResponse, Outcome("crash", FALSE, TRUE),
                              <<"draw", "verify">>)
                ELSE IF exists = "False"
                THEN LoopPass(fid, vr, NoResponse, Outcome("unverified", FALSE, FALSE),
                              <<"draw", "verify", "sleep_short">>)
                ELSE \E r \in ScoreResponses :
                       LET o == bulk_process(r) IN
                       LoopPass(fid, vr, r, o,
                                IF o.crashed THEN <<"draw", "verify", "fetch">>
                                ELSE <<"draw", "verify", "fetch", "sleep_full">>)

\* the events of a pass of the two loops without a verifier
FetchEvents(o, a, every) ==
    IF o.crashed THEN <<"draw", "fetch">>
    ELSE IF a % every = 0 THEN <<"draw", "fetch", "sleep_full", "progress">>
    ELSE <<"draw", "fetch", "sleep_full">>

\* simple_bulk_populate main(): one pass of the while loop
simple_bulk_populate_pass ==
    /\ script = "simple_bulk_populate" /\ pc = "Loop"
    /\ \E fid \in DrawnFids :
         IF IsDuplicate(fid, processed_fids)
         THEN LoopPass(fid, NoVerification, NoResponse, DuplicateOutcome, <<"draw">>)
         ELSE \E r \in ScoreResponses :
                LET o == simple_process(r) IN
                LoopPass(fid, NoVerification, r, o,
                         FetchEvents(o, AttemptsAfterDraw(attempts, FALSE),
                                     PROGRESS_EVERY_SIMPLE))

\* targeted_bulk_populate main(): one pass of the while loop
targeted_bulk_populate_pass ==
    /\ script = "targeted_bulk_populate" /\ pc = "Loop"
    /\ \E fid \in DrawnFids :
         IF IsDuplicate(fid, processed_fids)
         THEN LoopPass(fid, NoVerification, NoResponse, DuplicateOutcome, <<"draw">>)
         ELSE \E r \in ScoreResponses :
                LET o == targeted_process(r) IN
                LoopPass(fid, NoVerification, r, o,
                         FetchEvents(o, AttemptsAfterDraw(attempts, FALSE),
                                     PROGRESS_EVERY_TARGETED))

-----------------------------------------------------------------------------
(* bulk_update_1_to_100.py *)

\* "if fid % 10 == 0" (bulk_update_1_to_100), "if i % 10 == 0" (update_all_profiles)
PROGRESS_EVERY_UPDATE == 10

\* the dict update_fid_with_profile returns
UpdateResult(status, error, hasProfile) ==
    [status |-> status, error |-> error, hasProfile |-> hasProfile]

update_fid_with_profile(r) ==
    IF r.rc = "timeout" THEN UpdateResult("failed", "timed_out", FALSE)
    ELSE IF r.rc = "nonzero" THEN UpdateResult("failed", "request_failed", FALSE)
    ELSE IF r.body \in {"empty", "ctrlchar"}
        THEN UpdateResult("failed", "invalid_json", FALSE)      \* except JSONDecodeError
    ELSE IF r.body = "nonobject" THEN UpdateResult("failed", "attribute_error", FALSE)
    ELSE IF r.success = "true"
        THEN IF r.data = "absent" THEN UpdateResult("failed", "key_error", FALSE)
             ELSE IF r.data \in {"null", "nonobject"}
                THEN UpdateResult("failed", "attribute_error", FALSE)
             ELSE UpdateResult("success", "absent",
                               r.username = "text" \/ r.displayName = "text")
    ELSE UpdateResult("error", IF r.error = "absent" THEN "unknown_error" ELSE r.error,
                      FALSE)

\* bulk_update_1_to_100 main(): the branch taken on result['status']
bulk_update_classify(result) ==
    IF result.status = "success" THEN "scored"
    ELSE IF result.status = "error"
        THEN IF result.error = "nontext" THEN "crash"      \* None has no .lower
             ELSE IF IsNotFoundMessage(result.error) THEN "notfound"
             ELSE "failed"
    ELSE "failed"

\* the events of one pass of an updater's for loop
UpdateEvents(status, i) ==
    IF status = "crash" THEN <<"fetch">>
    ELSE IF i % PROGRESS_EVERY_UPDATE = 0 THEN <<"fetch", "progress", "sleep_2">>
    ELSE <<"fetch", "sleep_1">>

\* what a pass of an updater's for loop leaves in last
UpdatePass(fid, r, status, counted, i) ==
    [t |-> TimestampToken(script, clock), fid |-> fid, dup |-> FALSE, vr |-> NoVerification, resp |-> r, status |-> status,
     counted |-> counted, events |-> UpdateEvents(status, i),
     query |-> score_query(script),
     prev_attempts |-> cursor, prev_successes |-> successful_updates, prev_seen |-> {}]

\* bulk_update_1_to_100 main(): one pass of "for fid in range(1, 101)"
bulk_update_1_to_100_pass ==
    /\ script = "bulk_update_1_to_100" /\ pc = "Loop"
    /\ \E r \in UpdateResponses, d \in CallTicks :
         LET fid == cursor + 1
             result == update_fid_with_profile(r)
             status == bulk_update_classify(result)
         IN /\ cursor' = fid
            /\ clock' = ClockAfterPass(clock, d, UpdateEvents(status, fid),
                                        status # "crash" /\ fid < LAST_FID)
            /\ successful_updates' =
                 IF status = "scored" THEN successful_updates + 1 ELSE successful_updates
            /\ with_profiles' =
                 IF status = "scored" /\ result.hasProfile
                 THEN with_profiles + 1 ELSE with_profiles
            /\ not_found' = IF status = "notfound" THEN not_found + 1 ELSE not_found
            /\ failed_updates' =
                 IF status = "failed" THEN failed_updates + 1 ELSE failed_updates
            /\ pc' = IF status = "crash" THEN "Crashed"
                     ELSE IF fid < LAST_FID THEN "Loop" ELSE "Stopped"
            /\ profiled_scores' =
                 IF status = "scored" /\ result.hasProfile
                 THEN profiled_scores \cup {r.score} ELSE profiled_scores
            /\ exit_code' = IF status = "crash" THEN "1" ELSE exit_code
            /\ last' = UpdatePass(fid, r, status, status = "scored", fid)
    /\ UNCHANGED <<trigger, drawn, script, NEYNAR_API_KEY, current_leaderboard, attempts,
                   successful_adds, processed_fids,
                   all_fids, pipelined, nonNullFetches, after_loop>>

-----------------------------------------------------------------------------
(* update_all_profiles.py *)

\* One completed subprocess.run of GET /leaderboard:
\*   rc       "zero" | "nonzero" | "timeout"
\*   body     "object" | "nonobject" | "undecodable"
\*   success  "true" | "false"
\*   entries  the entries of data.leaderboard, in order
Lrsp(rc, body, success, entries) ==
    [rc |-> rc, body |-> body, success |-> success, entries |-> entries]

\* no leaderboard was read
NoLeaderboard == Lrsp("none", "none", "none", <<>>)

\* One entry of data.leaderboard:
\*   fid       its fid
\*   username, displayName  "text" (a non-empty string) | "empty" ('') | "absent"
\*             (no such key, or null)
\*   listable  it has the rank, overallScore and tier the listings print
Entry(fid, username, displayName, listable) ==
    [fid |-> fid, username |-> username, displayName |-> displayName,
     listable |-> listable]

\* entry.get('username') or entry.get('displayName')
HasProfile(entry) == entry.username = "text" \/ entry.displayName = "text"

Leaderboards ==
    {<<>>,
     <<Entry(2, "text", "absent", TRUE)>>,
     <<Entry(3, "empty", "absent", TRUE), Entry(1, "absent", "text", TRUE)>>,
     <<Entry(4, "absent", "absent", FALSE), Entry(2, "empty", "empty", TRUE),
       Entry(4, "text", "text", TRUE)>>}

LeaderboardResponses ==
    {Lrsp("zero", "object", "true", e) : e \in Leaderboards}
    \cup {Lrsp("zero", "object", "false", <<>>),
          Lrsp("zero", "nonobject", "false", <<>>),
          Lrsp("zero", "undecodable", "false", <<>>),
          Lrsp("nonzero", "none", "none", <<>>),
          Lrsp("timeout", "none", "none", <<>>)}

get_all_fids_from_leaderboard(l) ==
    IF l.rc = "zero" /\ l.body = "object" /\ l.success = "true"
    THEN [i \in 1..Len(l.entries) |-> l.entries[i].fid] ELSE <<>>

\* The head of the list get_additional_known_fids returns (93 FIDs in the script).
get_additional_known_fids == <<1, 3, 5>>

Elements(seq) == {seq[i] : i \in 1..Len(seq)}

\* mutant of Sorted: the largest first
RECURSIVE SortedDescending(_)
SortedDescending(S) ==
    IF S = {} THEN <<>>
    ELSE LET m == CHOOSE x \in S : \A y \in S : x >= y
         IN <<m>> \o SortedDescending(S \ {m})

\* sorted(S) for a set of integers
RECURSIVE Sorted(_)
Sorted(S) ==
    IF S = {} THEN <<>>
    ELSE LET m == CHOOSE x \in S : \A y \in S : x <= y
         IN <<m>> \o Sorted(S \ {m})

\* all_fids = list(set(leaderboard_fids + additional_fids)); all_fids.sort()
update_all_profiles_collect ==
    /\ script = "update_all_profiles" /\ pc = "Collect"
    /\ \E l \in LeaderboardResponses :
         /\ all_fids' = Sorted(Elements(get_all_fids_from_leaderboard(l)
                                        \o get_additional_known_fids))
         /\ current_leaderboard' = l
    /\ pc' = IF Len(all_fids') > 0 THEN "Loop" ELSE "Stopped"
    /\ UNCHANGED <<trigger, clock, drawn, script, NEYNAR_API_KEY, attempts,
                   successful_adds, processed_fids,
                   cursor, successful_updates, failed_updates, not_found,
                   with_profiles, profiled_scores, last, pipelined, nonNullFetches,
                   after_loop, exit_code>>

\* force_profile_update: the status line it prints; it returns True exactly for "scored"
force_profile_update(r) ==
    IF r.rc # "zero" THEN "failed"
    ELSE IF r.body # "object" THEN "failed"             \* every exception is caught
    ELSE IF r.success = "true"
        THEN IF r.data \in {"record", "emptyrecord"} THEN "scored" ELSE "failed"
    ELSE LET error_msg == IF r.error = "absent" THEN "unknown_error" ELSE r.error IN
         IF error_msg = "nontext" THEN "failed"         \* AttributeError, caught
         ELSE IF IsNotFoundMessage(error_msg) THEN "notfound"
         ELSE "failed"

\* update_all_profiles main(): one pass of "for i, fid in enumerate(all_fids, 1)"
update_all_profiles_pass ==
    /\ script = "update_all_profiles" /\ pc = "Loop"
    /\ \E r \in UpdateResponses, d \in CallTicks :
         LET i == cursor + 1
             status == force_profile_update(r)
         IN /\ cursor' = i
            /\ current_leaderboard' = NoLeaderboard
            /\ clock' = ClockAfterPass(clock, d, UpdateEvents(status, i),
                                        i < Len(all_fids))
            /\ successful_updates' =
                 IF status = "scored" THEN successful_updates + 1 ELSE successful_updates
            /\ failed_updates' =
                 IF status = "scored" THEN failed_updates ELSE failed_updates + 1
            /\ pc' = IF i < Len(all_fids) THEN "Loop" ELSE "Stopped"
            /\ last' = UpdatePass(all_fids[i], r, status, status = "scored", i)
    /\ UNCHANGED <<trigger, drawn, script, NEYNAR_API_KEY, attempts,
                   successful_adds, processed_fids,
                   all_fids, not_found, with_profiles, profiled_scores, pipelined,
                   nonNullFetches, after_loop, exit_code>>

-----------------------------------------------------------------------------
(* Module level of bulk_populate.py *)

\* mutant of CredentialMissing: "if NEYNAR_API_KEY is None"
CredentialIsNone(key) == key = "absent"

\* not NEYNAR_API_KEY: os.getenv returned None or the empty string
CredentialMissing(key) == key \in {"absent", "empty"}

\* NEYNAR_API_KEY = os.getenv('NEYNAR_API_KEY'); if not NEYNAR_API_KEY: sys.exit(1)
bulk_populate_startup ==
    /\ script = "bulk_populate" /\ pc = "Start"
    /\ IF CredentialMissing(NEYNAR_API_KEY)
       THEN pc' = "Exited" /\ exit_code' = "1"
       ELSE pc' = "Loop" /\ exit_code' = exit_code
    /\ UNCHANGED <<trigger, clock, drawn, script, NEYNAR_API_KEY, current_leaderboard, attempts,
                   successful_adds, processed_fids,
                   cursor, all_fids, successful_updates, failed_updates, not_found,
                   with_profiles, profiled_scores, last, pipelined, nonNullFetches,
                   after_loop>>

-----------------------------------------------------------------------------
(* After the loop: the final summary *)

\* f"{(num/den)*100:.1f}": the percentage in tenths of a percent, rounded to the
\* nearest tenth (a tie to the even one); -1 stands for the ZeroDivisionError of den = 0
Percent1f(num, den) ==
    IF den = 0 THEN -1
    ELSE LET q == (1000 * num) \div den
             r == (1000 * num) % den
         IN IF 2 * r > den \/ (2 * r = den /\ q % 2 = 1) THEN q + 1 ELSE q

\* mutant of SuccessRate: the operands swapped
AttemptsPerSuccess(s, a) == Percent1f(a, s)

\* (successful_adds/attempts)*100
SuccessRate(s, a) == Percent1f(s, a)

\* The numbers the final summary printed; -1 for a number it did not print.
\*   remaining   the shortfall named by the "Target not fully reached" warning
Summary(successes, total, quota, rate, remaining) ==
    [successes |-> successes, attempts |-> total, quota |-> quota, rate |-> rate,
     remaining |-> remaining]

NoSummary == Summary(-1, -1, -1, -1, -1)

\* What the audit printed:
\*   status    "coverage" (the coverage line, then the listing) |
\*             "coverage_only" (the coverage line; the listing raised) |
\*             "api_error" | "request_failed" | "exception" | "none"
\*   total, enriched   the two numbers of the coverage line, -1 when not printed
Audit(status, total, enriched) ==
    [status |-> status, total |-> total, enriched |-> enriched]

NoAudit == Audit("none", -1, -1)

\* The code below the while loop of a sampling script; warns: the script has the
\* "Target not fully reached" warning (targeted_bulk_populate has none and prints
\* the attempts inside the success-rate line).
SamplingFinish(warns) ==
    /\ pc = "Stopped" /\ exit_code = "running"
    /\ LET rate == SuccessRate(successful_adds, attempts)
           short == warns /\ successful_adds < TARGET_USERS
       IN IF rate = -1
          THEN /\ summary' = Summary(successful_adds, IF warns THEN attempts ELSE -1,
                                     TARGET_USERS, -1, -1)
               /\ tail' = <<"summary", "ZeroDivisionError">>
               /\ exit_code' = "1"
          ELSE /\ summary' = Summary(successful_adds, attempts, TARGET_USERS, rate,
                                     IF short THEN TARGET_USERS - successful_adds ELSE -1)
               /\ tail' = IF short THEN <<"summary", "shortfall", "end">>
                          ELSE <<"summary", "end">>
               /\ exit_code' = "0"
    /\ UNCHANGED <<trigger, clock, drawn, script, NEYNAR_API_KEY, current_leaderboard, pc, attempts,
                   successful_adds,
                   processed_fids, cursor, all_fids, successful_updates, failed_updates,
                   not_found, with_profiles, profiled_scores, last, audit, audit_read,
                   pipelined,
                   nonNullFetches>>

\* bulk_populate main(): from "Bulk population complete!" to the end
bulk_populate_finish == script = "bulk_populate" /\ SamplingFinish(TRUE)

\* simple_bulk_populate main(): from "Bulk population complete!" to the end
simple_bulk_populate_finish == script = "simple_bulk_populate" /\ SamplingFinish(TRUE)

\* targeted_bulk_populate main(): the two lines below the loop
targeted_bulk_populate_finish ==
    script = "targeted_bulk_populate" /\ SamplingFinish(FALSE)

-----------------------------------------------------------------------------
(* After the loop of the updaters: summary, rebuild trigger, audit *)

\* One subprocess.run of curl -X POST .../leaderboard/refresh:
\*   rc    "zero" | "nonzero" | "timeout" (TimeoutExpired) | "oserror" (curl could
\*         not be started)
\*   body  what the server wrote when curl exited 0: "success" | "error"
Trsp(rc, body) == [rc |-> rc, body |-> body]

\* no rebuild was requested yet
NoTrigger == Trsp("none", "none")

TriggerResponses ==
    {Trsp("zero", b) : b \in {"success", "error"}}
    \cup {Trsp(rc, "none") : rc \in {"nonzero", "timeout", "oserror"}}

\* mutant of leaderboard_refresh: the line printed follows the answer's success flag
leaderboard_refresh_by_body(t) ==
    IF t.rc = "zero" /\ t.body = "success" THEN "refreshed"
    ELSE IF t.rc \in {"zero", "nonzero"} THEN "refresh_failed"
    ELSE "refresh_raised"

\* the line printed after the rebuild trigger
leaderboard_refresh(t) ==
    IF t.rc = "zero" THEN "refreshed"
    ELSE IF t.rc = "nonzero" THEN "refresh_failed"
    ELSE "refresh_raised"                       \* except Exception

\* sum(1 for entry in leaderboard if entry.get('username') or entry.get('displayName'))
Enriched(entries) == Cardinality({i \in 1..Len(entries) : HasProfile(entries[i])})

\* every entry the listing prints has the fields it prints (the listings take the
\* first 5 or 10 entries; the leaderboards of the model are shorter)
Listable(entries) == \A i \in 1..Len(entries) : entries[i].listable

\* bulk_update_1_to_100 main(): "Final leaderboard profile coverage analysis"
bulk_update_audit(l) ==
    IF l.rc = "timeout" THEN Audit("exception", -1, -1)
    ELSE IF l.rc # "zero" THEN Audit("request_failed", -1, -1)
    ELSE IF l.body # "object" THEN Audit("exception", -1, -1)
    ELSE IF l.success # "true" THEN Audit("api_error", -1, -1)
    ELSE IF Len(l.entries) = 0 THEN Audit("exception", -1, -1)   \* ZeroDivisionError
    ELSE Audit(IF Listable(l.entries) THEN "coverage" ELSE "coverage_only",
               Len(l.entries), Enriched(l.entries))

\* update_all_profiles main(): "Testing updated leaderboard with profile data";
\* the listing comes first, the coverage line after it
update_all_audit(l) ==
    IF l.rc = "timeout" THEN Audit("exception", -1, -1)
    ELSE IF l.rc # "zero" THEN Audit("request_failed", -1, -1)
    ELSE IF l.body # "object" THEN Audit("exception", -1, -1)
    ELSE IF l.success # "true" THEN Audit("api_error", -1, -1)
    ELSE IF ~Listable(l.entries) THEN Audit("exception", -1, -1)  \* KeyError 'rank'
    ELSE Audit("coverage", Len(l.entries), Enriched(l.entries))

\* sorted(..., key=lambda x: x['score']) over n entries whose scores are of the
\* given kinds raises TypeError when two of them do not compare
SortRaises(n, kinds) == n >= 2 /\ kinds \notin {{"number"}, {"text"}}

\* bulk_update_1_to_100 main(): from "FINAL RESULTS" to the end
bulk_update_1_to_100_finish ==
    /\ script = "bulk_update_1_to_100" /\ pc = "Stopped" /\ exit_code = "running"
    /\ \E t \in TriggerResponses, l \in LeaderboardResponses :
         LET coverage == Percent1f(with_profiles, successful_updates) IN
         IF coverage = -1
         THEN /\ summary' = Summary(successful_updates, -1, -1, -1, -1)
              /\ tail' = <<"summary", "ZeroDivisionError">>
              /\ audit' = audit /\ audit_read' = audit_read
              /\ trigger' = trigger
              /\ exit_code' = "1"
         ELSE IF SortRaises(with_profiles, profiled_scores)
         THEN /\ summary' = Summary(successful_updates, -1, -1, coverage, -1)
              /\ tail' = <<"summary", "TypeError">>
              /\ audit' = audit /\ audit_read' = audit_read
              /\ trigger' = trigger
              /\ exit_code' = "1"
         ELSE /\ summary' = Summary(successful_updates, -1, -1, coverage, -1)
              /\ tail' = (IF with_profiles > 0 THEN <<"summary", "top10">>
                           ELSE <<"summary">>)             \* if results:
                          \o <<"trigger", leaderboard_refresh(t), "audit", "end">>
              /\ audit' = bulk_update_audit(l) /\ audit_read' = l
              /\ trigger' = t
              /\ exit_code' = "0"
    /\ UNCHANGED <<clock, drawn, script, NEYNAR_API_KEY, current_leaderboard, pc, attempts,
                   successful_adds,
                   processed_fids, cursor, all_fids, successful_updates, failed_updates,
                   not_found, with_profiles, profiled_scores, last, pipelined,
                   nonNullFetches>>

\* update_all_profiles main(): from the summary to the end
update_all_profiles_finish ==
    /\ script = "update_all_profiles" /\ pc = "Stopped" /\ exit_code = "running"
    /\ \E t \in TriggerResponses, l \in LeaderboardResponses :
         /\ summary' = Summary(successful_updates, Len(all_fids), -1, -1, -1)
         /\ tail' = <<"summary", "trigger", leaderboard_refresh(t), "audit", "end">>
         /\ audit' = update_all_audit(l) /\ audit_read' = l
         /\ trigger' = t
         /\ exit_code' = "0"
    /\ UNCHANGED <<clock, drawn, script, NEYNAR_API_KEY, current_leaderboard, pc, attempts,
                   successful_adds,
                   processed_fids, cursor, all_fids, successful_updates, failed_updates,
                   not_found, with_profiles, profiled_scores, last, pipelined,
                   nonNullFetches>>

-----------------------------------------------------------------------------
(* refresh_top_creators.py, force_cache_refresh.py, clean_leaderboard.py *)

\* the leaderboard request succeeded: exit 0, a JSON object, success true
Served(l) == l.rc = "zero" /\ l.body = "object" /\ l.success = "true"

\* seq[:n]
Take(seq, n) == SubSeq(seq, 1, IF Len(seq) < n THEN Len(seq) ELSE n)

\* [entry['fid'] for entry in entries]
Fids(entries) == [i \in 1..Len(entries) |-> entries[i].fid]

\* [entry for entry in entries if not (username or displayName)], in order
RECURSIVE WithoutProfile(_)
WithoutProfile(entries) ==
    IF entries = <<>> THEN <<>>
    ELSE (IF HasProfile(Head(entries)) THEN <<>> ELSE <<Head(entries)>>)
         \o WithoutProfile(Tail(entries))

\* The head of refresh_top_creators' fallback list [10, 2, 12, 88, 1626, ...].
FallbackTopFids == <<10, 2, 12>>

\* mutant of get_top_creator_fids: no list when the leaderboard cannot be read
get_top_creator_fids_no_fallback(l) ==
    IF Served(l) THEN Fids(Take(l.entries, TOP_CREATORS)) ELSE <<>>

\* refresh_top_creators: get_top_creator_fids
get_top_creator_fids(l) ==
    IF Served(l) THEN Fids(Take(l.entries, TOP_CREATORS)) ELSE FallbackTopFids

\* force_cache_refresh: get_fids_without_profiles
get_fids_without_profiles(l) ==
    IF Served(l) THEN Fids(WithoutProfile(l.entries)) ELSE <<>>

\* clean_leaderboard: get_current_leaderboard
get_current_leaderboard(l) == IF Served(l) THEN l.entries ELSE <<>>

\* what the three main() leave unchanged before their loops
RefreshCollectFrame ==
    UNCHANGED <<trigger, clock, drawn, script, NEYNAR_API_KEY, attempts,
                successful_adds, processed_fids,
                cursor, successful_updates, failed_updates, not_found, with_profiles,
                profiled_scores, last, pipelined, nonNullFetches, summary, audit,
                audit_read>>

\* refresh_top_creators main(): top_fids = get_top_creator_fids()
refresh_top_creators_collect ==
    /\ script = "refresh_top_creators" /\ pc = "Collect"
    /\ \E l \in LeaderboardResponses :
         all_fids' = get_top_creator_fids(l) /\ current_leaderboard' = l
    /\ pc' = IF Len(all_fids') > 0 THEN "Loop" ELSE "Stopped"
    /\ UNCHANGED <<tail, exit_code>>
    /\ RefreshCollectFrame

\* force_cache_refresh main(): up to "if not fids_without_profiles: return"
force_cache_refresh_collect ==
    /\ script = "force_cache_refresh" /\ pc = "Collect"
    /\ \E l \in LeaderboardResponses :
         all_fids' = get_fids_without_profiles(l) /\ current_leaderboard' = l
    /\ IF Len(all_fids') = 0
       THEN pc' = "Returned" /\ tail' = <<"all_profiled", "end">> /\ exit_code' = "0"
       ELSE pc' = "Loop" /\ UNCHANGED <<tail, exit_code>>
    /\ RefreshCollectFrame

\* clean_leaderboard main(): up to "if not entries_to_remove: return"; the listing
\* of the entries to remove reads entry['rank'] and the like outside any try
clean_leaderboard_collect ==
    /\ script = "clean_leaderboard" /\ pc = "Collect"
    /\ \E l \in LeaderboardResponses :
         LET leaderboard == get_current_leaderboard(l)
             entries_to_remove == WithoutProfile(leaderboard)
         IN current_leaderboard' = l /\
            IF Len(leaderboard) = 0
            THEN /\ pc' = "Returned" /\ all_fids' = <<>>
                 /\ tail' = <<"no_leaderboard", "end">> /\ exit_code' = "0"
            ELSE IF \E i \in 1..Len(entries_to_remove) : ~entries_to_remove[i].listable
            THEN /\ pc' = "Crashed" /\ all_fids' = <<>>
                 /\ tail' = <<"KeyError">> /\ exit_code' = "1"
            ELSE IF Len(entries_to_remove) = 0
            THEN /\ pc' = "Returned" /\ all_fids' = <<>>
                 /\ tail' = <<"all_profiled", "end">> /\ exit_code' = "0"
            ELSE /\ pc' = "Loop" /\ all_fids' = Fids(entries_to_remove)
                 /\ UNCHANGED <<tail, exit_code>>
    /\ RefreshCollectFrame

\* refresh_top_creators: refresh_creator_with_profile, the status line it prints
refresh_creator_with_profile(r) ==
    IF r.rc # "zero" THEN "failed"
    ELSE IF r.body # "object" THEN "failed"             \* every exception is caught
    ELSE IF r.success = "true"
        THEN IF r.data \in {"record", "emptyrecord"} THEN "scored" ELSE "failed"
    ELSE "failed"

\* force_cache_refresh: force_fresh_calculation, the status line it prints; the
\* try block of clean_leaderboard's loop prints the same three
force_fresh_calculation(r) ==
    IF r.rc # "zero" THEN "failed"
    ELSE IF r.body # "object" THEN "failed"             \* every exception is caught
    ELSE IF r.success = "true"
        THEN IF r.data \notin {"record", "emptyrecord"} THEN "failed"
             ELSE IF r.username = "text" \/ r.displayName = "text" THEN "scored"
             ELSE "noprofile"
    ELSE "failed"

\* "if i % 5 == 0" (force_cache_refresh)
PROGRESS_EVERY_FORCE == 5

\* One pass of a refresher's for loop: r the score response, status the line
\* printed, events the remote call and the sleep of the pass.
RefreshPass(r, d, status, events) ==
    LET i == cursor + 1 IN
    /\ cursor' = i
    /\ current_leaderboard' = NoLeaderboard
    /\ clock' = ClockAfterPass(clock, d, events, i < Len(all_fids))
    /\ successful_updates' =
         IF status = "scored" THEN successful_updates + 1 ELSE successful_updates
    /\ pc' = IF i < Len(all_fids) THEN "Loop" ELSE "Stopped"
    /\ last' = [fid |-> all_fids[i], dup |-> FALSE, vr |-> NoVerification, resp |-> r,
                status |-> status, counted |-> status = "scored", events |-> events,
                query |-> score_query(script), t |-> TimestampToken(script, clock),
                prev_attempts |-> cursor,
                prev_successes |-> successful_updates, prev_seen |-> {}]
    /\ UNCHANGED <<trigger, drawn, script, NEYNAR_API_KEY, attempts,
                   successful_adds, processed_fids,
                   all_fids, failed_updates, not_found, with_profiles, profiled_scores,
                   pipelined, nonNullFetches, after_loop, exit_code>>

\* refresh_top_creators main(): one pass of "for fid in top_fids"
refresh_top_creators_pass ==
    /\ script = "refresh_top_creators" /\ pc = "Loop"
    /\ \E r \in UpdateResponses, d \in CallTicks :
         RefreshPass(r, d, refresh_creator_with_profile(r), <<"fetch", "sleep_2">>)

\* force_cache_refresh main(): one pass of "for i, fid in enumerate(...)"
force_cache_refresh_pass ==
    /\ script = "force_cache_refresh" /\ pc = "Loop"
    /\ \E r \in UpdateResponses, d \in CallTicks :
         RefreshPass(r, d, force_fresh_calculation(r),
                     IF (cursor + 1) % PROGRESS_EVERY_FORCE = 0
                     THEN <<"fetch", "sleep_2", "progress">> ELSE <<"fetch", "sleep_2">>)

\* clean_leaderboard main(): one pass of "for entry in entries_to_remove"
clean_leaderboard_pass ==
    /\ script = "clean_leaderboard" /\ pc = "Loop"
    /\ \E r \in UpdateResponses, d \in CallTicks :
         RefreshPass(r, d, force_fresh_calculation(r), <<"fetch", "sleep_1">>)

\* the audits that list entries and print no coverage line (refresh_top_creators)
listing_audit(l) ==
    IF l.rc = "timeout" THEN Audit("exception", -1, -1)
    ELSE IF l.rc # "zero" THEN Audit("request_failed", -1, -1)
    ELSE IF l.body # "object" THEN Audit("exception", -1, -1)
    ELSE IF l.success # "true" THEN Audit("api_error", -1, -1)
    ELSE IF ~Listable(l.entries) THEN Audit("exception", -1, -1)
    ELSE Audit("listing", -1, -1)

\* force_cache_refresh main(): "Final leaderboard check": the coverage line, then
\* the listing
force_cache_audit(l) ==
    IF l.rc = "timeout" THEN Audit("exception", -1, -1)
    ELSE IF l.rc # "zero" THEN Audit("request_failed", -1, -1)
    ELSE IF l.body # "object" THEN Audit("exception", -1, -1)
    ELSE IF l.success # "true" THEN Audit("api_error", -1, -1)
    ELSE Audit(IF Listable(l.entries) THEN "coverage" ELSE "coverage_only",
               Len(l.entries), Enriched(l.entries))

\* what the code below the loop of a refresher leaves unchanged
RefreshFinishFrame ==
    UNCHANGED <<clock, drawn, script, NEYNAR_API_KEY, current_leaderboard, pc, attempts,
                successful_adds, processed_fids,
                cursor, all_fids, successful_updates, failed_updates, not_found,
                with_profiles, profiled_scores, last, pipelined, nonNullFetches>>

\* refresh_top_creators main(): from "Refreshed x/y" to the end
refresh_top_creators_finish ==
    /\ script = "refresh_top_creators" /\ pc = "Stopped" /\ exit_code = "running"
    /\ \E t \in TriggerResponses, l \in LeaderboardResponses :
         /\ summary' = Summary(successful_updates, Len(all_fids), -1, -1, -1)
         /\ tail' = <<"summary", "trigger", leaderboard_refresh(t), "audit", "end">>
         /\ audit' = listing_audit(l) /\ audit_read' = l
         /\ trigger' = t
         /\ exit_code' = "0"
    /\ RefreshFinishFrame

\* force_cache_refresh main(): from "Successfully updated" to the end
force_cache_refresh_finish ==
    /\ script = "force_cache_refresh" /\ pc = "Stopped" /\ exit_code = "running"
    /\ \E t \in TriggerResponses, l \in LeaderboardResponses :
         /\ summary' = Summary(successful_updates, Len(all_fids), -1, -1, -1)
         /\ tail' = <<"summary", "sleep_10", "trigger", leaderboard_refresh(t),
                      "audit", "end">>
         /\ audit' = force_cache_audit(l) /\ audit_read' = l
         /\ trigger' = t
         /\ exit_code' = "0"
    /\ RefreshFinishFrame

\* clean_leaderboard main(): from "Updated x/y problematic entries" to the end; the
\* final listings read entry['rank'] and the like outside any try
clean_leaderboard_finish ==
    /\ script = "clean_leaderboard" /\ pc = "Stopped" /\ exit_code = "running"
    /\ \E t \in TriggerResponses, l \in LeaderboardResponses :
         LET final_leaderboard == get_current_leaderboard(l) IN
         /\ summary' = Summary(successful_updates, Len(all_fids), -1, -1, -1)
         /\ trigger' = t /\ audit_read' = l
         /\ IF Len(final_leaderboard) = 0
            THEN /\ audit' = Audit("nothing", -1, -1)
                 /\ tail' = <<"summary", "trigger", leaderboard_refresh(t), "audit", "end">>
                 /\ exit_code' = "0"
            ELSE IF ~Listable(final_leaderboard)
            THEN /\ audit' = Audit("coverage_only", Len(final_leaderboard),
                                   Enriched(final_leaderboard))
                 /\ tail' = <<"summary", "trigger", leaderboard_refresh(t), "audit",
                              "KeyError">>
                 /\ exit_code' = "1"
            ELSE /\ audit' = Audit("coverage", Len(final_leaderboard),
                                   Enriched(final_leaderboard))
                 /\ tail' = <<"summary", "trigger", leaderboard_refresh(t), "audit", "end">>
                 /\ exit_code' = "0"
    /\ RefreshFinishFrame

-----------------------------------------------------------------------------
-----------------------------------------------------------------------------
(* populate_top_creators.py *)

\* The head of the list get_fresh_high_scoring_creators returns (19 FIDs in the
\* script).
get_fresh_high_scoring_creators == <<5650, 3621>>

\* test_creator_score: None, or the dict it builds; score is the kind of
\* overallScore ("absent" becomes the default 0, a number)
test_creator_score(r) ==
    IF r.rc # "zero" THEN [none |-> TRUE, hasProfile |-> FALSE, score |-> "none"]
    ELSE IF r.body # "object"                      \* every exception is caught
        THEN [none |-> TRUE, hasProfile |-> FALSE, score |-> "none"]
    ELSE IF r.success # "true" THEN [none |-> TRUE, hasProfile |-> FALSE, score |-> "none"]
    ELSE IF r.data \in {"absent", "null", "nonobject"}
        THEN [none |-> TRUE, hasProfile |-> FALSE, score |-> "none"]
    ELSE IF r.data = "emptyrecord"
        THEN [none |-> FALSE, hasProfile |-> FALSE, score |-> "number"]
    ELSE [none |-> FALSE,
          hasProfile |-> r.username = "text" \/ r.displayName = "text",
          score |-> IF r.score = "absent" THEN "number" ELSE r.score]

\* populate_top_creators main(): the branch one pass takes on creator_data; high
\* says whether a numeric overallScore is above 60
populate_classify(creator_data, high) ==
    IF creator_data.none THEN "failed"
    ELSE IF ~creator_data.hasProfile THEN "no_profile"
    ELSE IF creator_data.score # "number" THEN "crash"   \* None > 60, 'x' > 60
    ELSE IF high THEN "scored" ELSE "lower_score"

\* populate_top_creators main(): one pass of "for i, fid in enumerate(...)"
populate_top_creators_pass ==
    /\ script = "populate_top_creators" /\ pc = "Loop"
    /\ \E r \in UpdateResponses, high \in BOOLEAN :
         LET i == cursor + 1
             status == populate_classify(test_creator_score(r), high)
         IN /\ cursor' = i
            /\ successful_updates' =
                 IF status = "scored" THEN successful_updates + 1 ELSE successful_updates
            /\ pc' = IF status = "crash" THEN "Crashed"
                     ELSE IF i < Len(all_fids) THEN "Loop" ELSE "Stopped"
            /\ exit_code' = IF status = "crash" THEN "1" ELSE exit_code
            /\ last' = [fid |-> all_fids[i], dup |-> FALSE, vr |-> NoVerification,
                        resp |-> r, status |-> status, counted |-> status = "scored",
                        events |-> IF status = "crash" THEN <<"fetch">>
                                   ELSE <<"fetch", "sleep_1">>,
                        query |-> score_query(script), t |-> 0,
                        prev_attempts |-> cursor,
                        prev_successes |-> successful_updates, prev_seen |-> {}]
    /\ UNCHANGED <<trigger, clock, drawn, script, NEYNAR_API_KEY, current_leaderboard, attempts,
                   successful_adds, processed_fids, all_fids, failed_updates,
                   not_found, with_profiles, profiled_scores, pipelined,
                   nonNullFetches, after_loop>>

\* populate_top_creators main(): "Final leaderboard analysis": the coverage line,
\* then the listing of the entries with a profile
populate_audit(l) ==
    IF l.rc = "timeout" THEN Audit("exception", -1, -1)
    ELSE IF l.rc # "zero" THEN Audit("request_failed", -1, -1)
    ELSE IF l.body # "object" THEN Audit("exception", -1, -1)
    ELSE IF l.success # "true" THEN Audit("api_error", -1, -1)
    ELSE Audit(IF \A i \in 1..Len(l.entries) :
                     HasProfile(l.entries[i]) => l.entries[i].listable
               THEN "coverage" ELSE "coverage_only",
               Len(l.entries), Enriched(l.entries))

\* populate_top_creators main(): from "Found n high-scoring creators" to the end
populate_top_creators_finish ==
    /\ script = "populate_top_creators" /\ pc = "Stopped" /\ exit_code = "running"
    /\ \E t \in TriggerResponses, l \in LeaderboardResponses :
         /\ summary' = Summary(successful_updates, -1, -1, -1, -1)
         /\ tail' = (IF successful_updates > 0 THEN <<"summary", "top10">>
                      ELSE <<"summary">>)           \* if successful_creators:
                     \o <<"trigger", leaderboard_refresh(t), "audit", "end">>
         /\ audit' = populate_audit(l) /\ audit_read' = l
         /\ trigger' = t
         /\ exit_code' = "0"
    /\ RefreshFinishFrame

-----------------------------------------------------------------------------
\* the sampler has not drawn
NoDraw == [rand |-> 0 - 1, range |-> 0, fid |-> 0]

NoPass ==
    [fid |-> 0, dup |-> FALSE, vr |-> NoVerification, resp |-> NoResponse,
     status |-> "none", counted |-> FALSE, events |-> <<>>, query |-> <<>>, t |-> 0,
     prev_attempts |-> 0, prev_successes |-> 0, prev_seen |-> {}]

Init ==
    /\ script \in Scripts
    /\ NEYNAR_API_KEY \in IF script = "bulk_populate" THEN {"set", "empty", "absent"}
                            ELSE {"absent"}     \* the other scripts never read it
    /\ pc = CASE script = "bulk_populate" -> "Start"
              [] script \in {"update_all_profiles"} \cup RefreshScripts -> "Collect"
              [] OTHER -> "Loop"
    /\ attempts = 0
    /\ successful_adds = 0
    /\ processed_fids = {}
    /\ cursor = 0
    /\ all_fids = IF script = "populate_top_creators"
                  THEN get_fresh_high_scoring_creators ELSE <<>>
    /\ successful_updates = 0
    /\ failed_updates = 0
    /\ not_found = 0
    /\ with_profiles = 0
    /\ profiled_scores = {}
    /\ last = NoPass
    /\ summary = NoSummary
    /\ tail = <<>>
    /\ audit = NoAudit
    /\ audit_read = NoLeaderboard
    /\ current_leaderboard = NoLeaderboard
    /\ exit_code = "running"
    /\ pipelined = [k \in DrawnFids |-> 0]
    /\ nonNullFetches = 0
    /\ clock \in IF script \in SamplingScripts \cup {"populate_top_creators"}
                 THEN {0} ELSE 0..(TicksPerUnit - 1)
    /\ trigger = NoTrigger
    /\ drawn = NoDraw

Next ==
    \/ bulk_populate_startup
    \/ bulk_populate_pass
    \/ simple_bulk_populate_pass
    \/ targeted_bulk_populate_pass
    \/ bulk_update_1_to_100_pass
    \/ update_all_profiles_collect
    \/ update_all_profiles_pass
    \/ bulk_populate_finish
    \/ simple_bulk_populate_finish
    \/ targeted_bulk_populate_finish
    \/ bulk_update_1_to_100_finish
    \/ update_all_profiles_finish
    \/ refresh_top_creators_collect
    \/ force_cache_refresh_collect
    \/ clean_leaderboard_collect
    \/ refresh_top_creators_pass
    \/ force_cache_refresh_pass
    \/ clean_leaderboard_pass
    \/ refresh_top_creators_finish
    \/ force_cache_refresh_finish
    \/ clean_leaderboard_finish
    \/ populate_top_creators_pass
    \/ populate_top_creators_finish

Spec == Init /\ [][Next]_vars

\* The samplers on their own: each step is one call of generate_weighted_fid or of
\* generate_likely_fid, in a script that has not entered its loop.
generate_weighted_fid_call ==
    /\ script \in {"bulk_populate", "simple_bulk_populate"}
    /\ \E rand \in RandomValues(FID_RANGES(script)) :
         LET g == generate_weighted_fid(script, rand) IN
         \E fid \in randint(g.lo, g.hi) :
             drawn' = [rand |-> rand, range |-> g.range, fid |-> fid]
    /\ UNCHANGED <<script, NEYNAR_API_KEY, current_leaderboard, pc, attempts, successful_adds,
                   processed_fids, cursor, all_fids, successful_updates, failed_updates,
                   not_found, with_profiles, profiled_scores, last, after_loop,
                   exit_code, pipelined, nonNullFetches, clock, trigger>>

generate_likely_fid_call ==
    /\ script = "targeted_bulk_populate"
    /\ \E rand \in RandomValues(strategies) :
         LET g == generate_likely_fid(rand) IN
         \E fid \in randint(g.lo, g.hi) :
             drawn' = [rand |-> rand, range |-> g.range, fid |-> fid]
    /\ UNCHANGED <<script, NEYNAR_API_KEY, current_leaderboard, pc, attempts, successful_adds,
                   processed_fids, cursor, all_fids, successful_updates, failed_updates,
                   not_found, with_profiles, profiled_scores, last, after_loop,
                   exit_code, pipelined, nonNullFetches, clock, trigger>>

DrawInit == Init /\ script \in SamplingScripts

DrawNext == generate_weighted_fid_call \/ generate_likely_fid_call

DrawSpec == DrawInit /\ [][DrawNext]_vars

\* main() runs to its end: the loop body is sequential code, no pass waits on anything
\* but its own remote calls, and each of these returns or times out.
FairSpec == Spec /\ WF_vars(Next)

-----------------------------------------------------------------------------
(* Properties *)

Sampling == script \in SamplingScripts

\* the latest pass issued a score fetch
Fetched == last.resp # NoResponse

\* The fetch outcomes the loop is specified for: a score record with a numeric,
\* null or missing score, an error object with a text, an undecodable body, a curl
\* failure, a timeout.
ListedOutcome(r) ==
    \/ r \in TransportFailures
    \/ r.body \in {"empty", "ctrlchar"}
    \/ r.body = "object" /\ r.success = "true" /\ r.data = "record"
         /\ r.score \in {"number", "null", "absent"}
    \/ r.body = "object" /\ r.success # "true" /\ r.error # "nontext"

\* C1: every run of a sampling loop ends: it reaches Stopped, whatever keys are
\* drawn and whatever listed outcome each remote call has (a run that leaves main()
\* by an exception does so on a response outside the listed outcomes).
C1_LoopTerminates ==
    [](Sampling /\ pc = "Loop" =>
         <>(pc = "Stopped" \/ (pc = "Crashed" /\ ~ListedOutcome(last.resp))))

\* C1 witness: a run that used up its whole budget without meeting the quota,
\* its last draw a duplicate.
C1_BudgetExhausted ==
    /\ Sampling /\ pc = "Stopped" /\ last.dup
    /\ attempts = max_attempts(script) /\ successful_adds < TARGET_USERS

\* C2: when the loop has stopped, successes <= attempts <= attemptBudget.
C2_CountersAtStopped ==
    (Sampling /\ pc = "Stopped") =>
        (successful_adds <= attempts /\ attempts <= max_attempts(script))

\* C2 witness: the quota is met by the very last unit of the budget.
C2_QuotaOnLastAttempt ==
    /\ Sampling /\ pc = "Stopped" /\ last.counted
    /\ attempts = max_attempts(script) /\ successful_adds = TARGET_USERS

\* C3: a key enters the verify/fetch pipeline at most once per run: exactly the
\* keys of the seen set have entered it, each once; a draw of a seen key is
\* rejected without a remote call, a draw of an unseen key is recorded as seen.
C3_AdmittedOnce ==
    Sampling =>
        /\ \A k \in DrawnFids :
             pipelined[k] = IF k \in processed_fids THEN 1 ELSE 0
        /\ last.status # "none" =>
             /\ last.fid \in processed_fids
             /\ (last.fid \in last.prev_seen) = (last.status = "duplicate")
             /\ (last.fid \in last.prev_seen) = ~EntersPipeline(last.events)

\* C3 witness: a key that went through the pipeline is drawn again and rejected.
C3_SecondDrawRejected ==
    /\ Sampling /\ last.status = "duplicate"
    /\ pipelined[last.fid] = 1 /\ Cardinality(processed_fids) >= 2

\* C4 as stated: a pass whose key is discarded as a duplicate leaves attempts unchanged.
C4_DuplicateKeepsAttempts ==
    (Sampling /\ last.status = "duplicate") => attempts = last.prev_attempts

\* C4 amended: a pass whose key is discarded as a duplicate consumes one unit of
\* the budget like every other pass (attempts grows by one in every pass), and
\* leaves successes and the seen set unchanged.
C4_DuplicateConsumesAttempt ==
    (Sampling /\ last.status # "none") =>
        /\ attempts = last.prev_attempts + 1
        /\ last.status = "duplicate" =>
             /\ successful_adds = last.prev_successes
             /\ processed_fids = last.prev_seen

\* C4 witness: a duplicate draw after two keys were admitted.
C4_DuplicateDrawn ==
    /\ Sampling /\ last.status = "duplicate" /\ last.dup
    /\ last.prev_attempts >= 2 /\ pc = "Loop"

\* the fetch succeeded with a score record whose overallScore is null or absent
NullScore(r) ==
    /\ r.rc = "zero" /\ r.body = "object" /\ r.success = "true"
    /\ r.data = "record" /\ r.score \in {"null", "absent"}

\* C5: in every sampling loop a fetch that returns a record with a null or absent
\* overallScore leaves successes unchanged and has consumed one attempt.
C5_NullScoreNotCounted ==
    (Sampling /\ Fetched /\ NullScore(last.resp)) =>
        (successful_adds = last.prev_successes /\ attempts = last.prev_attempts + 1)

\* C6: in the sampling loops no fetch outcome ends the run by an exception, and
\* every outcome but a non-null score leaves successes unchanged.
C6_NoOutcomeAborts ==
    (Sampling /\ Fetched) =>
        /\ pc # "Crashed"
        /\ ~HasNonNullScore(last.resp) => successful_adds = last.prev_successes

\* C7: the loop stops right after the pass that delivers the quota-th non-null
\* score: once TARGET_USERS fetches returned a non-null score the loop has stopped
\* with successes = TARGET_USERS, and a loop that stopped with budget left stopped
\* on the pass of the quota-th non-null score.
C7_StopsAtQuotaSuccess ==
    (Sampling /\ pc # "Crashed") =>
        /\ nonNullFetches >= TARGET_USERS =>
             (pc = "Stopped" /\ successful_adds = TARGET_USERS)
        /\ (pc = "Stopped" /\ attempts < max_attempts(script)) =>
             (nonNullFetches = TARGET_USERS /\ HasNonNullScore(last.resp))

\* C8: in one pass successes grows by one if the fetch returned a non-null score
\* and is unchanged for every other outcome.
C8_SuccessesStep ==
    (Sampling /\ last.status # "none") =>
        successful_adds = last.prev_successes
                            + (IF Fetched /\ HasNonNullScore(last.resp) THEN 1 ELSE 0)

\* the scripts that tell not-found apart from other failures
ClassifyingScripts ==
    {"simple_bulk_populate", "bulk_update_1_to_100", "update_all_profiles"}

\* the error texts of the responses that name the key as invalid or not found,
\* in whatever letter case
NotFoundErrors == {"fid_not_found", "invalid_fid", "user_not_found_upper"}

\* the remote call succeeded and the collaborator answered success=false with
\* an error text that reports the key as invalid or not found
ReportsNotFound(r) ==
    /\ r.rc = "zero" /\ r.body = "object" /\ r.success = "false"
    /\ r.error \in NotFoundErrors

\* the loop of the run goes on: it is in its loop, or it stopped because its
\* stop condition holds
GoesOn ==
    \/ pc = "Loop"
    \/ /\ pc = "Stopped"
       /\ CASE script = "bulk_update_1_to_100" -> cursor = LAST_FID
            [] script = "update_all_profiles" -> cursor = Len(all_fids)
            [] OTHER -> ~LoopContinues(successful_adds, attempts, max_attempts(script))

\* C9: a success=false response whose error text contains 'not found' or 'invalid'
\* in any letter case is reported as not-found, a curl failure is not, and the
\* run goes on to its next key.
C9_NotFoundClassified ==
    (script \in ClassifyingScripts /\ Fetched) =>
        /\ ReportsNotFound(last.resp) => (last.status = "notfound" /\ GoesOn)
        /\ last.resp \in TransportFailures => last.status = "failed"
        /\ (script = "bulk_update_1_to_100" /\ last.status = "notfound") => not_found >= 1

\* C9 witness: an upper-case "USER NOT FOUND" was reported as not-found and the
\* loop is about to take its next key.
C9_UpperCaseNotFound ==
    /\ script \in ClassifyingScripts /\ last.resp.error = "user_not_found_upper"
    /\ last.status = "notfound" /\ pc = "Loop"

\* C10: the not-found report is produced only when the remote call succeeded and
\* the collaborator's own error text names the key as invalid or not found; a
\* curl failure, a timeout or an undecodable body is never reported as not-found.
C10_TransientNeverNotFound ==
    last.status = "notfound" => ReportsNotFound(last.resp)

\* the verifier's answer names the requested key: curl succeeded, the status is
\* 200, the body is an object whose users list starts with a user of that fid
NamesKey(v, fid) ==
    /\ v.rc = "zero" /\ v.status = "200" /\ v.body = "object"
    /\ v.users = "list" /\ v.first_fid = fid

\* C11: the verifier fails closed: a pass goes on to the score fetch exactly when
\* the lookup succeeded with status 200 and a decodable body whose first user
\* has the requested fid; for every other answer the pass prints "Not found in
\* Neynar", and no answer of the lookup ends the run by an exception.
C11_VerifierFailsClosed ==
    (script = "bulk_populate" /\ last.vr # NoVerification) =>
        /\ NamesKey(last.vr, last.fid) <=> Fetched
        /\ ~NamesKey(last.vr, last.fid) <=> last.status = "unverified"
        /\ last.status = "crash" => Fetched

\* C11 witnesses: the lookup timed out, or returned an object whose users field
\* is null, and the pass was reported as not found in Neynar.
C11_RaisingLookupRejected ==
    /\ script = "bulk_populate" /\ last.status = "unverified" /\ pc = "Loop"
    /\ last.vr.rc = "timeout" \/ last.vr.users = "nonlist"

\* the events of the latest pass up to and including its first fetch
BeforeFetch(events) ==
    SubSeq(events, 1, CHOOSE i \in 1..Len(events) : events[i] = "fetch")

\* C12 as stated: in bulk_populate a fetch is issued only after the verifier
\* answered true for the key of the pass; a pass whose verifier answered false
\* consumes its attempt, leaves successes unchanged, sleeps the short delay only,
\* issues no fetch, and the loop returns to sampling.
C12_UnverifiedReturnsToSampling ==
    (script = "bulk_populate" /\ last.status # "none") =>
        /\ Fetched => (NamesKey(last.vr, last.fid)
                         /\ BeforeFetch(last.events) = <<"draw", "verify", "fetch">>)
        /\ last.status = "unverified" =>
             /\ attempts = last.prev_attempts + 1
             /\ successful_adds = last.prev_successes
             /\ last.events = <<"draw", "verify", "sleep_short">>
             /\ ~Fetched
             /\ pc = "Loop"

\* C12 amended: as stated, but after the short delay the loop returns to its
\* while test: it samples again while attempts < max_attempts and stops when the
\* rejected key used the last attempt of the budget.
C12_UnverifiedReturnsToLoopTest ==
    (script = "bulk_populate" /\ last.status # "none") =>
        /\ Fetched => (NamesKey(last.vr, last.fid)
                         /\ BeforeFetch(last.events) = <<"draw", "verify", "fetch">>)
        /\ last.status = "unverified" =>
             /\ attempts = last.prev_attempts + 1
             /\ successful_adds = last.prev_successes
             /\ last.events = <<"draw", "verify", "sleep_short">>
             /\ ~Fetched
             /\ pc \in {"Loop", "Stopped"}
             /\ pc = "Loop" <=> attempts < max_attempts(script)

\* C12 witness: the verifier answered with another user's fid, the key was
\* rejected on the last attempt of the budget and the loop stopped.
C12_RejectedOnLastAttempt ==
    /\ script = "bulk_populate" /\ last.status = "unverified" /\ pc = "Stopped"
    /\ last.vr.users = "list" /\ last.vr.first_fid \notin {0, last.fid}
    /\ attempts = max_attempts(script)

\* C14 as stated: a pass that draws an already-seen key issues no remote call and
\* no delay, leaves the seen set and successes unchanged, and the loop goes
\* straight back to drawing the next key.
C14_DuplicateGoesBackToDraw ==
    (Sampling /\ last.status # "none" /\ last.fid \in last.prev_seen) =>
        /\ last.events = <<"draw">>
        /\ last.vr = NoVerification /\ ~Fetched
        /\ processed_fids = last.prev_seen
        /\ successful_adds = last.prev_successes
        /\ pc = "Loop"

\* C14 amended: as stated, but the loop goes back to its while test: it draws the
\* next key while attempts < max_attempts and stops when the duplicate draw used
\* the last attempt of the budget.
C14_DuplicateGoesBackToLoopTest ==
    (Sampling /\ last.status # "none" /\ last.fid \in last.prev_seen) =>
        /\ last.events = <<"draw">>
        /\ last.vr = NoVerification /\ ~Fetched
        /\ processed_fids = last.prev_seen
        /\ successful_adds = last.prev_successes
        /\ pc \in {"Loop", "Stopped"}
        /\ pc = "Loop" <=> attempts < max_attempts(script)

\* C14 witness: every key has been seen, one of them is drawn again on the last
\* attempt of the budget, and the loop stops without a remote call.
C14_DuplicateOnLastAttempt ==
    /\ Sampling /\ last.fid \in last.prev_seen /\ last.events = <<"draw">>
    /\ pc = "Stopped" /\ attempts = max_attempts(script)
    /\ Cardinality(processed_fids) >= 2

\* the events of the latest pass after its fetch
AfterFetch(events) ==
    SubSeq(events, (CHOOSE i \in 1..Len(events) : events[i] = "fetch") + 1, Len(events))

\* C13: after every score fetch the pass sleeps the full rate-limit delay before
\* anything else is called, and then the loop stops if and only if successes >=
\* quota or attempts >= attemptBudget; otherwise it samples again.
C13_DelayThenStopTest ==
    (Sampling /\ Fetched) =>
        /\ Len(AfterFetch(last.events)) >= 1
        /\ Head(AfterFetch(last.events)) = "sleep_full"
        /\ pc \in {"Loop", "Stopped"}
        /\ pc = "Stopped" <=>
             (successful_adds >= TARGET_USERS \/ attempts >= max_attempts(script))

\* the run has ended: the script's process has an exit status
Ended == exit_code # "running"

\* e occurs in the sequence seq
Occurs(e, seq) == \E i \in 1..Len(seq) : seq[i] = e

\* a occurs in seq, and b occurs after it
Follows(a, b, seq) == \E i, j \in 1..Len(seq) : i < j /\ seq[i] = a /\ seq[j] = b

\* C15: a run of bulk_update_1_to_100 in which no update succeeded still ends
\* normally: it prints its final summary, then issues the rebuild trigger, then
\* the audit read, and ends with exit status 0.
C15_AllFailedStillCompletes ==
    (script = "bulk_update_1_to_100" /\ Ended /\ pc = "Stopped"
       /\ successful_updates = 0) =>
        /\ exit_code = "0"
        /\ Follows("summary", "trigger", tail)
        /\ Follows("trigger", "audit", tail)
        /\ Follows("audit", "end", tail)

\* the sampling loop has stopped short of its quota
StoppedShort == Sampling /\ pc = "Stopped" /\ successful_adds < TARGET_USERS

\* the summary shows successes, attempts and quota as they stand, and the success
\* rate successes/attempts as a percentage to the nearest tenth
SummaryShowsTotals ==
    /\ summary.successes = successful_adds
    /\ summary.attempts = attempts
    /\ summary.quota = TARGET_USERS
    /\ LET d == summary.rate * attempts - 1000 * successful_adds
       IN 2 * d <= attempts /\ -2 * d <= attempts

\* C16: a sampling run whose loop stopped with successes < quota goes on to end
\* with exit status 0, and it has then printed the final summary: successes,
\* attempts, quota (successes/quota shows the shortfall) and the success rate
\* successes/attempts; bulk_populate and simple_bulk_populate also print the
\* warning naming the quota - successes users still missing.
C16_ShortfallReportedNotFatal ==
    /\ [](StoppedShort /\ Ended =>
            /\ exit_code = "0"
            /\ SummaryShowsTotals
            /\ summary.successes < summary.quota
            /\ Follows("summary", "end", tail)
            /\ script # "targeted_bulk_populate" =>
                 /\ summary.remaining = TARGET_USERS - successful_adds
                 /\ Follows("summary", "shortfall", tail))
    /\ (StoppedShort ~> Ended)

\* C16 witness: a run that used its whole budget without a single success has
\* ended after its summary and its shortfall warning.
C16_NoSuccessSummarised ==
    /\ StoppedShort /\ Ended /\ successful_adds = 0 /\ summary.rate = 0
    /\ summary.remaining = TARGET_USERS /\ tail = <<"summary", "shortfall", "end">>

\* C17: in simple_bulk_populate and targeted_bulk_populate, whenever a pass
\* brings attempts to a multiple of the script's progress cadence, the pass
\* emits a progress report, and the report changes neither a counter nor the
\* way the loop goes on.
C17_ProgressAtCadence ==
    (script \in {"simple_bulk_populate", "targeted_bulk_populate"}
       /\ last.status # "none" /\ attempts % ProgressEvery(script) = 0) =>
        /\ Occurs("progress", last.events)
        /\ attempts = last.prev_attempts + 1
        /\ pc \in {"Loop", "Stopped"}
        /\ pc = "Loop" <=> LoopContinues(successful_adds, attempts, max_attempts(script))

\* the verifying script runs without its credential
NoCredential == script = "bulk_populate" /\ NEYNAR_API_KEY \in {"absent", "empty"}

\* C18: bulk_populate without its credential (unset or empty) halts at module
\* level with exit status 1: no pass of the loop runs, no remote call is issued,
\* no key is ever reported as failing verification, no summary is printed; and
\* the halt does come.
C18_NoCredentialHaltsAtStartup ==
    /\ [](NoCredential =>
            /\ pc \in {"Start", "Exited"}
            /\ attempts = 0 /\ processed_fids = {}
            /\ last = NoPass /\ tail = <<>>
            /\ \A k \in DrawnFids : pipelined[k] = 0
            /\ Ended => (pc = "Exited" /\ exit_code = "1"))
    /\ (NoCredential ~> (pc = "Exited" /\ exit_code = "1"))

\* C18 witness: the variable is set to the empty string and the script has exited.
C18_EmptyCredentialExited ==
    /\ script = "bulk_populate" /\ NEYNAR_API_KEY = "empty"
    /\ pc = "Exited" /\ exit_code = "1" /\ last = NoPass

\* C19: a sampling run whose loop has stopped issues the rebuild trigger
\* (POST /leaderboard/refresh) and after it the audit read of the leaderboard
\* before it ends.
C19_SamplingRunRefreshesAggregate ==
    (Sampling /\ pc = "Stopped" /\ Ended) =>
        /\ Follows("trigger", "audit", tail)
        /\ Follows("audit", "end", tail)

\* the scripts whose score requests are meant to force a fresh computation
ForcedRefreshScripts ==
    {"refresh_top_creators", "force_cache_refresh", "clean_leaderboard",
     "update_all_profiles"}

\* C20: every score request of refresh_top_creators, force_cache_refresh,
\* clean_leaderboard and update_all_profiles has the timestamp parameter t in
\* its query string.
C20_ForcedRequestCarriesTimestamp ==
    (script \in ForcedRefreshScripts /\ Fetched) => Occurs("t", last.query)


\* the latest score request carried a timestamp token
CarriesToken == \E i \in 1..Len(last.query) : last.query[i] = "t"

\* C21: within one run the timestamp token of a cache-busting score request is
\* never smaller than, and never equal to, the token of the request before it: the
\* loop sleeps at least one second between two requests and the token is the clock
\* in whole seconds. (last.t counts from the second of the previous token, so a
\* value of 1 or more is a strictly greater token.)
C21_TokensIncrease ==
    CarriesToken /\ last.prev_attempts > 0 => last.t >= 1

\* a second request of bulk_update_1_to_100 that left one second after the first
\* stamp: the first request was stamped at the start of its second and answered at
\* once
C21_NextSecondToken ==
    /\ script = "bulk_update_1_to_100" /\ CarriesToken
    /\ last.prev_attempts = 1 /\ last.t = 1


\* the scripts of the coverage audit the claim names
CoverageAuditScripts == {"bulk_update_1_to_100", "clean_leaderboard"}

\* the rows whose username is non-empty or whose displayName is non-empty
RowsWithProfile(rows) ==
    {i \in 1..Len(rows) : rows[i].username = "text" \/ rows[i].displayName = "text"}

\* C22: for every leaderboard a successful read returned, the audit reports
\* totalEntries equal to the number of rows and enrichedEntries equal to the number
\* of rows whose username is non-empty or whose displayName is non-empty.
C22_AuditCountsRows ==
    /\ script \in CoverageAuditScripts
    /\ audit_read.rc = "zero" /\ audit_read.body = "object"
    /\ audit_read.success = "true"
    => /\ audit.total = Len(audit_read.entries)
       /\ audit.enriched = Cardinality(RowsWithProfile(audit_read.entries))


\* the time.sleep calls main() makes below its loop
SleepEvents == {"sleep_1", "sleep_2", "sleep_10"}

\* C23: in every script that triggers a rebuild and then audits, a fixed delay
\* elapses between the return of the rebuild trigger and the audit read of the
\* leaderboard.
C23_DelayBeforeAudit ==
    \A i \in 1..Len(tail), k \in 1..Len(tail) :
        tail[i] = "trigger" /\ tail[k] = "audit" /\ i < k
        => \E j \in (i + 1)..(k - 1) : tail[j] \in SleepEvents


\* the rebuild trigger of the run did not succeed: curl exited non-zero, timed out
\* or could not be started
TriggerFailed == trigger.rc \in {"nonzero", "timeout", "oserror"}

\* the scripts whose audit runs inside a try (every triggering script but
\* clean_leaderboard, whose final listing is outside any try)
GuardedAuditScripts ==
    {"bulk_update_1_to_100", "update_all_profiles", "force_cache_refresh",
     "refresh_top_creators"}

\* C24: the result reported for the rebuild trigger depends only on the transport
\* outcome of the trigger call (exit 0, exit non-zero, timeout or exception), not on
\* what the server answered; and a failed trigger neither aborts the run nor blocks
\* the audit: the audit read is still issued and the run ends normally.
C24_FailedTriggerNotFatal ==
    trigger # NoTrigger =>
        /\ Occurs("refreshed", tail) <=> trigger.rc = "zero"
        /\ Occurs("refresh_failed", tail) <=> trigger.rc = "nonzero"
        /\ Occurs("refresh_raised", tail) <=> trigger.rc \in {"timeout", "oserror"}
        /\ TriggerFailed =>
              /\ Follows("trigger", "audit", tail)
              /\ audit_read # NoLeaderboard
              /\ script \in GuardedAuditScripts =>
                    exit_code = "0" /\ tail[Len(tail)] = "end"

\* update_all_profiles: the trigger timed out, the audit read the leaderboard and
\* printed its coverage, main() returned
C24_AuditAfterTimedOutTrigger ==
    /\ script = "update_all_profiles" /\ trigger.rc = "timeout"
    /\ Occurs("refresh_raised", tail)
    /\ audit.status = "coverage" /\ exit_code = "0"


\* the scripts whose sampler walks FID_RANGES
WeightedScripts == {"bulk_populate", "simple_bulk_populate"}

\* the mass of the first i ranges of a table
CumulativeMass(table, i) == TableMass(SubSeq(table, 1, i))

\* the ranges of a table whose cumulative mass is at least r
Covering(table, r) == {i \in 1..Len(table) : CumulativeMass(table, i) >= r}

\* C25: with the masses as integers, a draw selects the first range in configured
\* order whose cumulative mass is at least r and returns an integer of that range
\* (from its lower to its upper bound); a draw reads only the table and the random
\* source and changes no run state (counters, seen set, position of the run).
C25_FirstCoveringRange ==
    script \in WeightedScripts /\ drawn # NoDraw =>
        LET table == FID_RANGES(script) IN
        /\ drawn.range \in Covering(table, drawn.rand)
        /\ \A j \in Covering(table, drawn.rand) : drawn.range <= j
        /\ table[drawn.range][1] <= drawn.fid
        /\ drawn.fid <= table[drawn.range][2]
        /\ attempts = 0 /\ successful_adds = 0 /\ processed_fids = {}
        /\ last = NoPass /\ exit_code = "running"

\* bulk_populate draws r = 0.30, exactly the mass of its first range, and the key
\* comes from that first range
C25_BoundaryValueTakesFirstRange ==
    /\ script = "bulk_populate" /\ drawn.rand = 30
    /\ drawn.range = 1 /\ drawn.fid = 2


\* the table the sampler of a script draws from
SamplerTable(s) == IF s = "targeted_bulk_populate" THEN strategies ELSE FID_RANGES(s)

\* C27: every key a draw returns from a range (lower, upper, mass) satisfies
\* lower <= key < upper, so no key can be produced by two different ranges.
C27_KeyInHalfOpenRange ==
    drawn # NoDraw =>
        LET table == SamplerTable(script) IN
        /\ table[drawn.range][1] <= drawn.fid
        /\ drawn.fid < table[drawn.range][2]
        /\ \A j \in 1..Len(table) :
              j # drawn.range => drawn.fid \notin randint(table[j][1], table[j][2])


\* every key the sampler can draw has been seen: each further draw is a duplicate
AllKeysSeen == processed_fids = DrawnFids

\* C29: the sampling loop terminates even when every draw after some point is a
\* duplicate (the key space is smaller than the budget): the number of loop
\* iterations, draws discarded as duplicates included, never exceeds the attempt
\* budget, and a loop left with nothing but duplicates to draw stops when the
\* budget is used up.
C29_DuplicatesExhaustBudget ==
    /\ [](Sampling => attempts <= max_attempts(script))
    /\ [](Sampling /\ pc = "Loop" /\ AllKeysSeen
           => <>(pc = "Stopped" /\ attempts = max_attempts(script)))

\* a run that had seen every key before its budget was used up and spent its last
\* attempts on duplicates
C29_EndedOnDuplicates ==
    /\ Sampling /\ pc = "Stopped" /\ last.dup /\ last.prev_seen = DrawnFids
    /\ attempts = max_attempts(script) /\ attempts > Cardinality(DrawnFids)

\* C30: in every state of the sampling loop successes <= quota, and at Stopped
\* either successes = quota or attempts = attemptBudget; the loop draws no key once
\* the quota is met or the budget is used up, and overshoots neither.
C30_StopsAtQuotaOrBudget ==
    Sampling =>
        /\ successful_adds <= TARGET_USERS
        /\ attempts <= max_attempts(script)
        /\ pc = "Stopped" =>
              successful_adds = TARGET_USERS \/ attempts = max_attempts(script)
        /\ pc = "Loop" =>
              successful_adds < TARGET_USERS /\ attempts < max_attempts(script)
        /\ last.status # "none" =>
              /\ last.prev_successes < TARGET_USERS
              /\ last.prev_attempts < max_attempts(script)

\* the quota was met with budget to spare, and the loop stopped there
C30_QuotaMetWithBudgetLeft ==
    /\ Sampling /\ pc = "Stopped" /\ successful_adds = TARGET_USERS
    /\ attempts < max_attempts(script) /\ last.counted

-----------------------------------------------------------------------------
\* the scripts that fetch scores in a loop and then trigger a rebuild
FetchAndTriggerScripts ==
    UpdateScripts \cup RefreshScripts \cup {"populate_top_creators"}

\* how often e occurs in the sequence seq
Count(e, seq) == Cardinality({i \in 1..Len(seq) : seq[i] = e})

\* C31: in every script that fetches scores and triggers a rebuild, a run that
\* fetched issues the rebuild trigger exactly once, only after its last score
\* fetch has returned (the loop has stopped), and issues the audit read only after
\* the trigger call has returned.
C31_TriggerOnceAfterLastFetch ==
    script \in FetchAndTriggerScripts =>
        /\ (trigger # NoTrigger => pc = "Stopped")
        /\ (audit_read # NoLeaderboard => trigger # NoTrigger)
        /\ (Ended /\ cursor > 0 =>
              /\ trigger # NoTrigger
              /\ Count("trigger", tail) = 1
              /\ Follows("trigger", "audit", tail)
              /\ ~Follows("audit", "trigger", tail))

\* C32: in bulk_update_1_to_100 the FIDs 1..LAST_FID are processed once each in
\* ascending order, and after k FIDs successful_updates + failed_updates +
\* not_found = k with with_profiles <= successful_updates: every FID processed is
\* counted in exactly one of the three outcome counters, and a run that has ended
\* has processed them all.
C32_EachFidCountedOnce ==
    script = "bulk_update_1_to_100" =>
        /\ successful_updates + failed_updates + not_found = cursor
        /\ with_profiles <= successful_updates
        /\ (Fetched => /\ last.fid = cursor /\ last.prev_attempts = cursor - 1
                       /\ last.status \in {"scored", "failed", "notfound"})
        /\ (Ended => cursor = LAST_FID)

\* the scripts that force-fetch the leaderboard entries without a profile
ProfileFixScripts == {"force_cache_refresh", "clean_leaderboard"}

\* entry has neither a username nor a displayName
LacksProfile(entry) ==
    entry.username \in {"absent", "empty"} /\ entry.displayName \in {"absent", "empty"}

\* the FIDs, in leaderboard order, of the entries without a profile of the
\* leaderboard l; none when l could not be read
ProfilelessFids(l) ==
    IF l.rc = "zero" /\ l.body = "object" /\ l.success = "true"
    THEN Fids(SelectSeq(l.entries, LacksProfile)) ELSE <<>>

\* C33: in clean_leaderboard and force_cache_refresh the forced score fetches go
\* to the FIDs of the leaderboard entries that lack both username and displayName,
\* one fetch per such entry in leaderboard order; when there is no such entry or
\* the leaderboard cannot be read, the run ends without any score fetch and
\* without a rebuild trigger.
C33_FetchesProfilelessEntries ==
    script \in ProfileFixScripts =>
        /\ (pc # "Collect" /\ cursor = 0 =>
              IF ProfilelessFids(current_leaderboard) = <<>>
              THEN /\ pc = "Returned" /\ exit_code = "0"
                   /\ ~Fetched /\ trigger = NoTrigger /\ ~Occurs("trigger", tail)
              ELSE pc = "Loop" /\ all_fids = ProfilelessFids(current_leaderboard))
        /\ (pc = "Returned" => cursor = 0)
        /\ (Fetched => last.fid = all_fids[cursor] /\ last.prev_attempts = cursor - 1)
        /\ (pc \in {"Stopped", "Crashed"} /\ cursor > 0 => cursor = Len(all_fids))

\* the FIDs a readable leaderboard lists; none when l could not be read
ListedFids(l) ==
    IF l.rc = "zero" /\ l.body = "object" /\ l.success = "true"
    THEN {l.entries[i].fid : i \in 1..Len(l.entries)} ELSE {}

\* the FIDs of the fixed known list
KnownFids == {get_additional_known_fids[i] : i \in 1..Len(get_additional_known_fids)}

\* C34: in update_all_profiles the list walked holds every FID of the union of the
\* leaderboard FIDs and the known list once, in ascending order, also when a FID
\* is in both; every pass force-updates the next FID of the list, and
\* successful_updates + failed_updates is the number of FIDs taken, at the end the
\* number of distinct FIDs, a not-found answer counting as failed.
C34_EachDistinctFidOnce ==
    script = "update_all_profiles" =>
        /\ (pc # "Collect" /\ cursor = 0 =>
              Elements(all_fids) = ListedFids(current_leaderboard) \cup KnownFids)
        /\ \A i, j \in 1..Len(all_fids) : i < j => all_fids[i] < all_fids[j]
        /\ (Fetched => last.fid = all_fids[cursor] /\ last.prev_attempts = cursor - 1)
        /\ successful_updates + failed_updates = cursor
        /\ (Fetched /\ last.status = "notfound" =>
              successful_updates = last.prev_successes)
        /\ (Ended => cursor = Len(all_fids))

\* a run of update_all_profiles has ended on a not-found answer after taking the
\* five distinct FIDs of a leaderboard that lists one FID twice
C34_UnionWalkedToEnd ==
    /\ script = "update_all_profiles" /\ Ended
    /\ all_fids = <<1, 2, 3, 4, 5>> /\ cursor = 5
    /\ last.status = "notfound" /\ failed_updates > 0 /\ successful_updates > 0

\* the leaderboard read l succeeded with success = true
ReadSucceeded(l) == l.rc = "zero" /\ l.body = "object" /\ l.success = "true"

\* the first at most n FIDs of the leaderboard l, in leaderboard order
FirstFids(l, n) ==
    [i \in 1..(IF Len(l.entries) < n THEN Len(l.entries) ELSE n) |-> l.entries[i].fid]

\* C35: in refresh_top_creators the list of FIDs to refresh is the first at most
\* TOP_CREATORS leaderboard FIDs in leaderboard order when the leaderboard read
\* succeeded with success = true, and the fixed fallback list whenever the read
\* failed (curl failure, timeout, undecodable or wrongly shaped body, success =
\* false); a failed read does not abort the run, which goes on into its loop.
C35_TopFidsOrFallback ==
    script = "refresh_top_creators" =>
        /\ (pc # "Collect" /\ cursor = 0 =>
              IF ReadSucceeded(current_leaderboard)
              THEN all_fids = FirstFids(current_leaderboard, TOP_CREATORS)
              ELSE all_fids = FallbackTopFids /\ pc = "Loop")
        /\ pc # "Crashed" /\ exit_code # "1"

\* the leaderboard read of refresh_top_creators has failed and the loop is about
\* to walk the fallback list
C35_FallbackAfterFailedRead ==
    /\ script = "refresh_top_creators" /\ pc = "Loop" /\ cursor = 0
    /\ current_leaderboard.rc \in {"nonzero", "timeout"}
    /\ all_fids = <<10, 2, 12>>

====
